---------------------------- MODULE Spec2Model ----------------------------
(***************************************************************************)
(* mageconfig: Load fills a configuration struct from default tags, a      *)
(* key:value file, the process environment and the process arguments, and  *)
(* then checks the required and depends tags.                              *)
(*                                                                         *)
(* A text (a Go string) is a sequence of one-character strings, so that    *)
(* the string functions the code uses (HasPrefix, TrimLeft, Index, SplitN, *)
(* TrimSpace, ToLower, the strconv parsers) are computed character by      *)
(* character.                                                              *)
(***************************************************************************)
EXTENDS Integers, Sequences, FiniteSets, TLC

(***************************************************************************)
(* Bounds of the model.                                                    *)
(***************************************************************************)
\* Longest argument list after the program name.
MaxArgs == 2
\* Most Load / DropArgsAfterTarget calls in one run of the process.
MaxCalls == 2
\* Longest argument list after the program name in the runs that explore
\* the argument scan.
MaxScanArgs == 3
\* Longest argument list after the program name in the runs that explore
\* conversion and naming.
MaxKindArgs == 2
\* Most lines of a configuration file in the runs that explore its reading.
MaxLines == 3
\* Longest argument list after the program name in the runs that explore
\* DropArgsAfterTarget.
MaxDropArgs == 3
\* Longest argument list after the program name in the runs that explore
\* the validation.
MaxOrderArgs == 4
\* Longest argument list after the program name in the runs that explore
\* the order of the passes.
MaxPassArgs == 2
\* Longest argument list after the program name in the runs that explore
\* the numeric kinds.
MaxNumericArgs == 2

(***************************************************************************)
(* Go's strings package, on texts.                                         *)
(***************************************************************************)
Upper == <<"A","B","C","D","E","F","G","H","I","J","K","L","M",
           "N","O","P","Q","R","S","T","U","V","W","X","Y","Z">>
Lower == <<"a","b","c","d","e","f","g","h","i","j","k","l","m",
           "n","o","p","q","r","s","t","u","v","w","x","y","z">>

LowerOf(c) ==
    IF \E i \in 1..Len(Upper) : Upper[i] = c
    THEN Lower[CHOOSE i \in 1..Len(Upper) : Upper[i] = c]
    ELSE c

ToLower(s) == [i \in 1..Len(s) |-> LowerOf(s[i])]

HasPrefix(s, p) == Len(s) >= Len(p) /\ SubSeq(s, 1, Len(p)) = p

RECURSIVE TrimLeft(_, _)
TrimLeft(s, c) ==
    IF s # <<>> /\ s[1] = c THEN TrimLeft(Tail(s), c) ELSE s

\* strings.Index for a one-character separator: 0-based, -1 when absent.
Index(s, c) ==
    IF \E i \in 1..Len(s) : s[i] = c
    THEN (CHOOSE i \in 1..Len(s) : s[i] = c /\ \A j \in 1..(i-1) : s[j] # c) - 1
    ELSE -1

IsSpace(c) == c \in {" ", "\t"}

RECURSIVE TrimRight(_)
TrimRight(s) ==
    IF s # <<>> /\ IsSpace(s[Len(s)]) THEN TrimRight(SubSeq(s, 1, Len(s) - 1)) ELSE s

RECURSIVE TrimLeftSpace(_)
TrimLeftSpace(s) ==
    IF s # <<>> /\ IsSpace(s[1]) THEN TrimLeftSpace(Tail(s)) ELSE s

TrimSpace(s) == TrimRight(TrimLeftSpace(s))

\* strings.Split(s, sep) for a one-character separator: never empty.
RECURSIVE Split(_, _)
Split(s, c) ==
    LET i == Index(s, c)
    IN  IF i < 0 THEN <<s>>
        ELSE <<SubSeq(s, 1, i)>> \o Split(SubSeq(s, i + 2, Len(s)), c)

\* strings.SplitN(s, sep, 2): at most two parts, cut at the first separator.
SplitN2(s, c) ==
    LET i == Index(s, c)
    IN  IF i < 0 THEN <<s>>
        ELSE <<SubSeq(s, 1, i), SubSeq(s, i + 2, Len(s))>>

contains(list, str) == \E i \in 1..Len(list) : list[i] = str


(***************************************************************************)
(* Errors.  An error is [kind, text]: text is the field, dependency, token *)
(* or input text the Go error message names.                               *)
(***************************************************************************)
Nil == [kind |-> "nil", text |-> <<>>]

\* errors.New("config must be a pointer to a struct")
ErrShape == [kind |-> "shape", text |-> <<>>]

\* fmt.Errorf("%w: %s", ErrRequiredNotSet, field.Name)
ErrRequiredNotSet(name) == [kind |-> "required", text |-> name]

\* fmt.Errorf("%w: %s", ErrDependsNotSet, depend)
ErrDependsNotSet(name) == [kind |-> "depends", text |-> name]

\* strconv.NumError with ErrSyntax / ErrRange, and time's parse errors.
ErrSyntax(s) == [kind |-> "syntax", text |-> s]
ErrRange(s) == [kind |-> "range", text |-> s]
ErrDuration(s) == [kind |-> "duration", text |-> s]

\* fmt.Errorf("unsupported type")
ErrUnsupported == [kind |-> "unsupported", text |-> <<>>]

\* fmt.Errorf("invalid map default value: %s", pair)
ErrMapFormat(pair) == [kind |-> "mapformat", text |-> pair]

\* the *PathError of os.Open, or the scanner's read error
ErrFile(path) == [kind |-> "file", text |-> path]

(***************************************************************************)
(* Values of fields.  An integer is kept as its canonical decimal numeral  *)
(* (sign and digits without leading zeros), which is exact over the whole  *)
(* 64-bit range.                                                           *)
(***************************************************************************)
BoolV(b) == [t |-> "bool", b |-> b]
StringV(s) == [t |-> "string", s |-> s]
IntV(neg, digits) == [t |-> "int", neg |-> neg, digits |-> digits]
UintV(digits) == [t |-> "uint", digits |-> digits]
DurationV(neg, h, m, s, ms, us, ns) ==
    [t |-> "time.Duration", neg |-> neg,
     h |-> h, m |-> m, s |-> s, ms |-> ms, us |-> us, ns |-> ns]
\* a float64 as the decimal number mant * 10^exp: mant its significant digits
\* without leading or trailing zeros (<<"0">> for zero, with exp 0)
FloatV(neg, mant, exp) == [t |-> "float64", neg |-> neg, mant |-> mant, exp |-> exp]
SliceV(items) == [t |-> "slice", items |-> items]
MapV(m) == [t |-> "map", m |-> m]
NoValue == [t |-> "invalid"]

Digits == <<"0","1","2","3","4","5","6","7","8","9">>
IsDigit(c) == \E i \in 1..Len(Digits) : Digits[i] = c
DigitVal(c) == (CHOOSE i \in 1..Len(Digits) : Digits[i] = c) - 1

RECURSIVE StripZeros(_)
StripZeros(ds) ==
    IF Len(ds) > 1 /\ ds[1] = "0" THEN StripZeros(Tail(ds)) ELSE ds

\* a <= b for canonical digit texts
RECURSIVE DigitsLeq(_, _)
DigitsLeq(a, b) ==
    IF Len(a) # Len(b) THEN Len(a) < Len(b)
    ELSE IF a = <<>> THEN TRUE
    ELSE IF a[1] # b[1] THEN DigitVal(a[1]) < DigitVal(b[1])
    ELSE DigitsLeq(Tail(a), Tail(b))

\* 1<<63 - 1, 1<<63 and 1<<64 - 1 as digit texts
MaxInt64Digits ==
    <<"9","2","2","3","3","7","2","0","3","6","8","5","4","7","7","5","8","0","7">>
MinInt64Digits ==
    <<"9","2","2","3","3","7","2","0","3","6","8","5","4","7","7","5","8","0","8">>
MaxUint64Digits ==
    <<"1","8","4","4","6","7","4","4","0","7","3","7","0","9","5","5","1","6","1","5">>

\* small numeral to number (used by the duration grammar only)
RECURSIVE DigitsToNat(_)
DigitsToNat(ds) ==
    IF ds = <<>> THEN 0
    ELSE 10 * DigitsToNat(SubSeq(ds, 1, Len(ds) - 1)) + DigitVal(ds[Len(ds)])

(***************************************************************************)
(* strconv and time parsers.  Each returns [v, err].                       *)
(***************************************************************************)
TrueTexts == {<<"1">>, <<"t">>, <<"T">>, <<"T","R","U","E">>,
              <<"t","r","u","e">>, <<"T","r","u","e">>}
FalseTexts == {<<"0">>, <<"f">>, <<"F">>, <<"F","A","L","S","E">>,
               <<"f","a","l","s","e">>, <<"F","a","l","s","e">>}

ParseBool(s) ==
    IF s \in TrueTexts THEN [v |-> BoolV(TRUE), err |-> Nil]
    ELSE IF s \in FalseTexts THEN [v |-> BoolV(FALSE), err |-> Nil]
    ELSE [v |-> BoolV(FALSE), err |-> ErrSyntax(s)]

\* strconv.ParseUint(s, 10, 64)
ParseUint(s) ==
    IF s = <<>> \/ \E i \in 1..Len(s) : ~IsDigit(s[i])
    THEN [v |-> UintV(<<"0">>), err |-> ErrSyntax(s)]
    ELSE IF ~DigitsLeq(StripZeros(s), MaxUint64Digits)
    THEN [v |-> UintV(MaxUint64Digits), err |-> ErrRange(s)]
    ELSE [v |-> UintV(StripZeros(s)), err |-> Nil]

\* strconv.ParseInt(s, 10, 64)
ParseInt(s) ==
    IF s = <<>> THEN [v |-> IntV(FALSE, <<"0">>), err |-> ErrSyntax(s)]
    ELSE
      LET neg == s[1] = "-"
          body == IF s[1] \in {"+", "-"} THEN Tail(s) ELSE s
          ds == StripZeros(body)
      IN  IF body = <<>> \/ \E i \in 1..Len(body) : ~IsDigit(body[i])
          THEN [v |-> IntV(FALSE, <<"0">>), err |-> ErrSyntax(s)]
          ELSE IF ~neg /\ ~DigitsLeq(ds, MaxInt64Digits)
          THEN [v |-> IntV(FALSE, MaxInt64Digits), err |-> ErrRange(s)]
          ELSE IF neg /\ ~DigitsLeq(ds, MinInt64Digits)
          THEN [v |-> IntV(TRUE, MinInt64Digits), err |-> ErrRange(s)]
          ELSE [v |-> IntV(neg /\ ds # <<"0">>, ds), err |-> Nil]

RECURSIVE StripTrailingZeros(_)
StripTrailingZeros(ds) ==
    IF Len(ds) > 1 /\ ds[Len(ds)] = "0"
    THEN StripTrailingZeros(SubSeq(ds, 1, Len(ds) - 1)) ELSE ds

RECURSIVE PadRight(_, _)
PadRight(ds, n) == IF Len(ds) >= n THEN ds ELSE PadRight(ds \o <<"0">>, n)

\* the largest float64, 1.7976931348623157e308, as the first digits of the
\* least decimal that rounds beyond it (half an ulp above)
OverFloat64Digits ==
    <<"1","7","9","7","6","9","3","1","3","4","8","6","2","3","1","5","8","0","8">>

\* the decimal mant * 10^exp lies below over * 10^(order + 1 - Len(over))
BelowDecimal(mant, exp, over, order) ==
    LET o == Len(mant) + exp - 1
        n == IF Len(mant) > Len(over) THEN Len(mant) ELSE Len(over)
    IN  \/ mant = <<"0">>
        \/ o < order
        \/ o = order /\ PadRight(mant, n) # PadRight(over, n)
                     /\ DigitsLeq(PadRight(mant, n), PadRight(over, n))

\* strconv.ParseFloat(s, 64) on decimal texts: an optional sign, digits, an
\* optional fraction and an optional exponent (hexadecimal texts, infinities,
\* NaN and underscores are left out of the runs).  The value is the decimal
\* read, exact up to 19 significant digits; a magnitude beyond the largest
\* float64 is a range error.
AllDigitChars(ds) == \A i \in 1..Len(ds) : IsDigit(ds[i])

\* the value of the significant digits sig at the decimal exponent e
FloatValue(s, neg, sig, e) ==
    LET make(m) ==
            IF BelowDecimal(m, e + (Len(sig) - Len(m)), OverFloat64Digits, 308)
            THEN [v |-> FloatV(neg, m, e + (Len(sig) - Len(m))), err |-> Nil]
            ELSE [v |-> FloatV(neg, <<"i","n","f">>, 0), err |-> ErrRange(s)]
    IN  IF sig = <<"0">> THEN [v |-> FloatV(neg, <<"0">>, 0), err |-> Nil]
        ELSE make(StripTrailingZeros(sig))

\* the number before the exponent: digits around an optional point
FloatNumber(s, neg, num, expNeg, expDigits) ==
    LET split(whole, frac) ==
            IF \/ whole \o frac = <<>>
               \/ ~AllDigitChars(whole) \/ ~AllDigitChars(frac)
               \/ expDigits = <<>> \/ ~AllDigitChars(expDigits)
            THEN [v |-> FloatV(FALSE, <<"0">>, 0), err |-> ErrSyntax(s)]
            ELSE FloatValue(s, neg, StripZeros(whole \o frac),
                            (IF expNeg THEN 0 - DigitsToNat(expDigits)
                             ELSE DigitsToNat(expDigits)) - Len(frac))
        at(dot) ==
            split(IF dot >= 0 THEN SubSeq(num, 1, dot) ELSE num,
                  IF dot >= 0 THEN SubSeq(num, dot + 2, Len(num)) ELSE <<>>)
    IN  at(Index(num, "."))

\* the exponent: the text after the first e or E, with an optional sign
FloatExponent(s, neg, body) ==
    LET exp(num, expText) ==
            FloatNumber(s, neg, num,
                        expText # <<>> /\ expText[1] = "-",
                        IF expText # <<>> /\ expText[1] \in {"+", "-"}
                        THEN Tail(expText) ELSE expText)
        at(ePos) ==
            exp(IF ePos >= 0 THEN SubSeq(body, 1, ePos) ELSE body,
                IF ePos >= 0 THEN SubSeq(body, ePos + 2, Len(body)) ELSE <<"0">>)
    IN  at(IF Index(body, "e") >= 0 THEN Index(body, "e") ELSE Index(body, "E"))

ParseFloat(s) ==
    FloatExponent(s, s # <<>> /\ s[1] = "-",
                  IF s # <<>> /\ s[1] \in {"+", "-"} THEN Tail(s) ELSE s)

\* time.ParseDuration on texts of whole numbers and units (the model's
\* texts carry no decimal point): [-+]?([0-9]+unit)+ or "0".
DurationUnits == {<<"n","s">>, <<"u","s">>, <<"m","s">>, <<"s">>, <<"m">>, <<"h">>}

ZeroDuration == DurationV(FALSE, 0, 0, 0, 0, 0, 0)

AddUnit(d, n, u) ==
    LET ns == d.ns + (IF u = <<"n","s">> THEN n ELSE 0)
        us == d.us + (IF u = <<"u","s">> THEN n ELSE 0) + ns \div 1000
        ms == d.ms + (IF u = <<"m","s">> THEN n ELSE 0) + us \div 1000
        sc == d.s + (IF u = <<"s">> THEN n ELSE 0) + ms \div 1000
        mn == d.m + (IF u = <<"m">> THEN n ELSE 0) + sc \div 60
        hr == d.h + (IF u = <<"h">> THEN n ELSE 0) + mn \div 60
    IN  DurationV(d.neg, hr, mn % 60, sc % 60, ms % 1000, us % 1000, ns % 1000)

\* length of the leading run of digits / of lower-case letters
RECURSIVE DigitRun(_)
DigitRun(s) == IF s # <<>> /\ IsDigit(s[1]) THEN 1 + DigitRun(Tail(s)) ELSE 0

RECURSIVE LetterRun(_)
LetterRun(s) ==
    IF s # <<>> /\ ~IsDigit(s[1]) /\ s[1] # "." THEN 1 + LetterRun(Tail(s)) ELSE 0

RECURSIVE DurationTerms(_, _, _)
DurationTerms(s, d, orig) ==
    IF s = <<>> THEN [v |-> d, err |-> Nil]
    ELSE
      LET nd == DigitRun(s)
          rest == SubSeq(s, nd + 1, Len(s))
          nu == LetterRun(rest)
          unit == SubSeq(rest, 1, nu)
      IN  IF nd = 0 \/ unit \notin DurationUnits
          THEN [v |-> ZeroDuration, err |-> ErrDuration(orig)]
          ELSE DurationTerms(SubSeq(rest, nu + 1, Len(rest)),
                             AddUnit(d, DigitsToNat(SubSeq(s, 1, nd)), unit), orig)

ParseDuration(s) ==
    LET body == IF s # <<>> /\ s[1] \in {"+", "-"} THEN Tail(s) ELSE s
        signed(r) == IF r.err = Nil /\ s[1] = "-" /\ r.v # ZeroDuration
                     THEN [r EXCEPT !.v.neg = TRUE]
                     ELSE r
    IN  IF body = <<"0">> THEN [v |-> ZeroDuration, err |-> Nil]
        ELSE IF body = <<>> THEN [v |-> ZeroDuration, err |-> ErrDuration(s)]
        ELSE signed(DurationTerms(body, ZeroDuration, s))

(***************************************************************************)
(* helpers.go: conversion of a text to a field's type.                     *)
(*                                                                         *)
(* A field type is [kind, elem]: kind is the reflect.Kind, or "slice" /    *)
(* "map" with elem the element type's name; a scalar has elem = kind's     *)
(* type name.  A conversion returns [v, err, panic]: panic says that       *)
(* reflect's Set refused the parsed value (a Go panic, not an error).      *)
(***************************************************************************)
Scalar(name) == [kind |-> name, elem |-> name]
SliceOf(name) == [kind |-> "slice", elem |-> name]
MapOf(name) == [kind |-> "map", elem |-> name]

\* Kinds parseStringToType has no case for.
UnsupportedTypes == {"int8", "int16", "uint8", "uint16", "[]uint8", "struct"}

\* parseStringToType: the parsed value is an int, a uint, a float64, a bool,
\* a string or a time.Duration, whatever the width of the type asked for.
parseStringToType(s, t) ==
    CASE t = "time.Duration" -> ParseDuration(s)
      [] t = "bool" -> ParseBool(s)
      [] t \in {"int", "int32", "int64"} -> ParseInt(s)
      [] t \in {"uint", "uint32", "uint64"} -> ParseUint(s)
      [] t \in {"float32", "float64"} -> ParseFloat(s)
      [] t = "string" -> [v |-> StringV(s), err |-> Nil]
      [] t \in UnsupportedTypes -> [v |-> NoValue, err |-> ErrUnsupported]

\* reflect.Value.Set / SetMapIndex accept a value only of the identical type.
Assignable(v, t) == v.t = t

\* the zero value reflect.MakeSlice puts in each slot / of a field
Zero(t) ==
    CASE t.kind = "slice" -> SliceV(<<>>)
      [] t.kind = "map" -> MapV(<<>>)
      [] t.kind = "bool" -> BoolV(FALSE)
      [] t.kind = "string" -> StringV(<<>>)
      [] t.kind \in {"int", "int32", "int64"} -> [IntV(FALSE, <<"0">>) EXCEPT !.t = t.kind]
      [] t.kind \in {"uint", "uint32", "uint64"} -> [UintV(<<"0">>) EXCEPT !.t = t.kind]
      [] t.kind \in {"float32", "float64"} -> [FloatV(FALSE, <<"0">>, 0) EXCEPT !.t = t.kind]
      [] t.kind = "time.Duration" -> ZeroDuration

\* a slice case that converts each element as it stands, untrimmed
RECURSIVE SliceElemsUntrimmed(_, _, _)
SliceElemsUntrimmed(elems, i, t) ==
    LET put(r) ==
            IF r.err # Nil THEN [v |-> <<>>, err |-> r.err, panic |-> FALSE]
            ELSE IF ~Assignable(r.v, t) THEN [v |-> <<>>, err |-> Nil, panic |-> TRUE]
            ELSE LET more == SliceElemsUntrimmed(elems, i + 1, t)
                 IN  [more EXCEPT !.v = <<r.v>> \o more.v]
    IN  IF i > Len(elems) THEN [v |-> <<>>, err |-> Nil, panic |-> FALSE]
        ELSE put(parseStringToType(elems[i], t))

\* the slice case: elements left to right, the first failure ends the call
RECURSIVE SliceElems(_, _, _)
SliceElems(elems, i, t) ==
    LET put(r) ==
            IF r.err # Nil THEN [v |-> <<>>, err |-> r.err, panic |-> FALSE]
            ELSE IF ~Assignable(r.v, t) THEN [v |-> <<>>, err |-> Nil, panic |-> TRUE]
            ELSE LET more == SliceElems(elems, i + 1, t)
                 IN  [more EXCEPT !.v = <<r.v>> \o more.v]
    IN  IF i > Len(elems) THEN [v |-> <<>>, err |-> Nil, panic |-> FALSE]
        ELSE put(parseStringToType(TrimSpace(elems[i]), t))

\* a map case that passes over a pair without a colon
RECURSIVE MapPairsSkipMalformed(_, _, _, _)
MapPairsSkipMalformed(elems, i, t, m) ==
    LET put(key, r) ==
            IF r.err # Nil THEN [v |-> m, err |-> r.err, panic |-> FALSE]
            ELSE IF ~Assignable(r.v, t) THEN [v |-> m, err |-> Nil, panic |-> TRUE]
            ELSE MapPairsSkipMalformed(elems, i + 1, t,
                          [k \in DOMAIN m \cup {key} |-> IF k = key THEN r.v ELSE m[k]])
        pair(kv) ==
            IF Len(kv) # 2
            THEN MapPairsSkipMalformed(elems, i + 1, t, m)
            ELSE put(TrimSpace(kv[1]), parseStringToType(TrimSpace(kv[2]), t))
    IN  IF i > Len(elems) THEN [v |-> m, err |-> Nil, panic |-> FALSE]
        ELSE pair(SplitN2(elems[i], ":"))

\* the map case: pairs left to right into the map built so far
RECURSIVE MapPairs(_, _, _, _)
MapPairs(elems, i, t, m) ==
    LET put(key, r) ==
            IF r.err # Nil THEN [v |-> m, err |-> r.err, panic |-> FALSE]
            ELSE IF ~Assignable(r.v, t) THEN [v |-> m, err |-> Nil, panic |-> TRUE]
            ELSE MapPairs(elems, i + 1, t,
                          [k \in DOMAIN m \cup {key} |-> IF k = key THEN r.v ELSE m[k]])
        pair(kv) ==
            IF Len(kv) # 2
            THEN [v |-> m, err |-> ErrMapFormat(elems[i]), panic |-> FALSE]
            ELSE put(TrimSpace(kv[1]), parseStringToType(TrimSpace(kv[2]), t))
    IN  IF i > Len(elems) THEN [v |-> m, err |-> Nil, panic |-> FALSE]
        ELSE pair(SplitN2(elems[i], ":"))

\* setFieldByKind(field, value, strVal): [v, err, panic]; v is the field's
\* new value when err = Nil and panic = FALSE, and the old value otherwise.
setFieldByKind(field, old, strVal) ==
    LET setSlice(r) == IF r.err # Nil \/ r.panic THEN [r EXCEPT !.v = old]
                       ELSE [r EXCEPT !.v = SliceV(r.v)]
        setMap(r) == IF r.err # Nil \/ r.panic THEN [r EXCEPT !.v = old]
                     ELSE [r EXCEPT !.v = MapV(r.v)]
        setBasic(r) == IF r.err # Nil THEN [v |-> old, err |-> r.err, panic |-> FALSE]
                       ELSE IF ~Assignable(r.v, field.Type.kind)
                       THEN [v |-> old, err |-> Nil, panic |-> TRUE]
                       ELSE [v |-> r.v, err |-> Nil, panic |-> FALSE]
    IN  CASE field.Type.kind = "slice" ->
               setSlice(SliceElems(Split(strVal, ","), 1, field.Type.elem))
          [] field.Type.kind = "map" ->
               setMap(MapPairs(Split(strVal, ","), 1, field.Type.elem, <<>>))
          [] OTHER ->
               setBasic(parseStringToType(strVal, field.Type.kind))

(***************************************************************************)
(* The struct types Load is given.  A field declaration is the field's     *)
(* name, its type and the value of each tag (empty when the tag is         *)
(* absent, as reflect's Tag.Get returns it).                               *)
(***************************************************************************)
\* TestConfig of the package's tests
TestConfig == <<
    [ Name |-> <<"D","F","i","e","l","d","0">>,
       Type |-> Scalar("bool"),
       arg |-> <<"d","f","i","e","l","d","0">>,
       env |-> <<>>,
       file |-> <<>>,
       default |-> <<>>,
       required |-> <<>>,
       depends |-> <<>> ],
    [ Name |-> <<"D","F","i","e","l","d","1">>,
       Type |-> Scalar("bool"),
       arg |-> <<"d","f","i","e","l","d","1">>,
       env |-> <<>>,
       file |-> <<>>,
       default |-> <<>>,
       required |-> <<>>,
       depends |-> <<"F","i","e","l","d","1",",","D","F","i","e","l","d","0">> ],
    [ Name |-> <<"F","i","e","l","d","0">>,
       Type |-> Scalar("bool"),
       arg |-> <<"f","i","e","l","d","0">>,
       env |-> <<>>,
       file |-> <<>>,
       default |-> <<"f","a","l","s","e">>,
       required |-> <<>>,
       depends |-> <<>> ],
    [ Name |-> <<"F","i","e","l","d","1">>,
       Type |-> Scalar("string"),
       arg |-> <<"f","i","e","l","d","1">>,
       env |-> <<>>,
       file |-> <<>>,
       default |-> <<"d","e","f","a","u","l","t","1">>,
       required |-> <<>>,
       depends |-> <<>> ],
    [ Name |-> <<"F","i","e","l","d","2">>,
       Type |-> Scalar("int"),
       arg |-> <<"f","i","e","l","d","2">>,
       env |-> <<>>,
       file |-> <<>>,
       default |-> <<"2">>,
       required |-> <<>>,
       depends |-> <<>> ],
    [ Name |-> <<"F","i","e","l","d","3">>,
       Type |-> Scalar("string"),
       arg |-> <<>>,
       env |-> <<"F","I","E","L","D","3">>,
       file |-> <<>>,
       default |-> <<"e","n","v","D","e","f","a","u","l","t">>,
       required |-> <<>>,
       depends |-> <<>> ],
    [ Name |-> <<"F","i","e","l","d","4">>,
       Type |-> Scalar("string"),
       arg |-> <<>>,
       env |-> <<>>,
       file |-> <<"f","i","e","l","d","4">>,
       default |-> <<"f","i","l","e","D","e","f","a","u","l","t">>,
       required |-> <<>>,
       depends |-> <<>> ],
    [ Name |-> <<"F","i","e","l","d","5">>,
       Type |-> Scalar("string"),
       arg |-> <<"f","i","e","l","d","5">>,
       env |-> <<"F","I","E","L","D","5">>,
       file |-> <<"f","i","e","l","d","5">>,
       default |-> <<"a","l","l","D","e","f","a","u","l","t">>,
       required |-> <<>>,
       depends |-> <<>> ],
    [ Name |-> <<"F","i","e","l","d","6">>,
       Type |-> Scalar("string"),
       arg |-> <<"f","i","e","l","d","6">>,
       env |-> <<"F","I","E","L","D","6">>,
       file |-> <<"f","i","e","l","d","6">>,
       default |-> <<>>,
       required |-> <<"t","r","u","e">>,
       depends |-> <<>> ] >>

\* Config of examples/magefile.go
Config == <<
    [ Name |-> <<"D","a","t","a","b","a","s","e","U","R","L">>,
       Type |-> Scalar("string"),
       arg |-> <<"d","b","-","u","r","l">>,
       env |-> <<"D","B","_","U","R","L">>,
       file |-> <<"d","b","U","R","L">>,
       default |-> <<>>,
       required |-> <<"t","r","u","e">>,
       depends |-> <<>> ],
    [ Name |-> <<"B","a","c","k","u","p","D","a","t","a","b","a","s","e","U","R","L">>,
       Type |-> Scalar("string"),
       arg |-> <<"b","a","c","k","u","p","-","d","b","-","u","r","l">>,
       env |-> <<"B","A","C","K","U","P","_","D","B","_","U","R","L">>,
       file |-> <<"b","a","c","k","u","p","D","B","U","R","L">>,
       default |-> <<>>,
       required |-> <<>>,
       depends |-> <<"D","a","t","a","b","a","s","e","U","R","L">> ],
    [ Name |-> <<"A","P","I","K","e","y">>,
       Type |-> Scalar("string"),
       arg |-> <<"a","p","i","-","k","e","y">>,
       env |-> <<"A","P","I","_","K","E","Y">>,
       file |-> <<"a","p","i","K","e","y">>,
       default |-> <<>>,
       required |-> <<"t","r","u","e">>,
       depends |-> <<>> ],
    [ Name |-> <<"M","a","x","R","e","t","r","i","e","s">>,
       Type |-> Scalar("int"),
       arg |-> <<"m","a","x","-","r","e","t","r","i","e","s">>,
       env |-> <<"M","A","X","_","R","E","T","R","I","E","S">>,
       file |-> <<"m","a","x","R","e","t","r","i","e","s">>,
       default |-> <<"3">>,
       required |-> <<>>,
       depends |-> <<>> ],
    [ Name |-> <<"T","i","m","e","o","u","t">>,
       Type |-> Scalar("time.Duration"),
       arg |-> <<"t","i","m","e","o","u","t">>,
       env |-> <<"T","I","M","E","O","U","T">>,
       file |-> <<"t","i","m","e","o","u","t">>,
       default |-> <<"5","s">>,
       required |-> <<>>,
       depends |-> <<>> ] >>

\* TestConfig of TestSetFieldByKind: no field names a file key, an
\* environment variable or an argument
SetFieldByKindTestConfig == <<
    [ Name |-> <<"S","t","r","i","n","g","S","l","i","c","e">>,
       Type |-> SliceOf("string"),
       arg |-> <<>>,
       env |-> <<>>,
       file |-> <<>>,
       default |-> <<"o","n","e",",","t","w","o",",","t","h","r","e","e">>,
       required |-> <<>>,
       depends |-> <<>> ],
    [ Name |-> <<"I","n","t","M","a","p">>,
       Type |-> MapOf("int"),
       arg |-> <<>>,
       env |-> <<>>,
       file |-> <<>>,
       default |-> <<"k","e","y","1",":","1",",","k","e","y","2",":","2",",","k","e","y","3",":","3">>,
       required |-> <<>>,
       depends |-> <<>> ],
    [ Name |-> <<"S","t","r","i","n","g">>,
       Type |-> Scalar("string"),
       arg |-> <<>>,
       env |-> <<>>,
       file |-> <<>>,
       default |-> <<"t","e","s","t">>,
       required |-> <<>>,
       depends |-> <<>> ] >>

\* a struct of untagged fields of types the Config interface lists as
\* supported: []int and map[string]string
SupportedTypesConfig == <<
    [ Name |-> <<"I","n","t","S","l","i","c","e">>,
       Type |-> SliceOf("int"),
       arg |-> <<>>,
       env |-> <<>>,
       file |-> <<>>,
       default |-> <<>>,
       required |-> <<>>,
       depends |-> <<>> ],
    [ Name |-> <<"T","e","x","t","M","a","p">>,
       Type |-> MapOf("string"),
       arg |-> <<>>,
       env |-> <<>>,
       file |-> <<>>,
       default |-> <<>>,
       required |-> <<>>,
       depends |-> <<>> ] >>

\* a struct whose tags put every order of checkRequiredAndDepends to use:
\* a field both required and depending, on names listed against the
\* declared order, before a depending and a required field
OrderConfig == <<
    [ Name |-> <<"M","a","i","n">>,
       Type |-> Scalar("string"),
       arg |-> <<"m","a","i","n">>,
       env |-> <<>>,
       file |-> <<>>,
       default |-> <<>>,
       required |-> <<"t","r","u","e">>,
       depends |-> <<"E","x","t","r","a",",","O","t","h","e","r">> ],
    [ Name |-> <<"O","t","h","e","r">>,
       Type |-> Scalar("string"),
       arg |-> <<"o","t","h","e","r">>,
       env |-> <<>>,
       file |-> <<>>,
       default |-> <<>>,
       required |-> <<>>,
       depends |-> <<"E","x","t","r","a">> ],
    [ Name |-> <<"E","x","t","r","a">>,
       Type |-> Scalar("string"),
       arg |-> <<"e","x","t","r","a">>,
       env |-> <<>>,
       file |-> <<>>,
       default |-> <<>>,
       required |-> <<>>,
       depends |-> <<>> ],
    [ Name |-> <<"L","a","s","t">>,
       Type |-> Scalar("string"),
       arg |-> <<"l","a","s","t">>,
       env |-> <<>>,
       file |-> <<>>,
       default |-> <<>>,
       required |-> <<"t","r","u","e">>,
       depends |-> <<>> ] >>

\* a struct whose three fields every source names, the middle one an int
\* whose text may fail to convert, with the default text given
PassStruct(default) == <<
    [ Name |-> <<"A">>,
       Type |-> Scalar("string"),
       arg |-> <<"a">>,
       env |-> <<"A">>,
       file |-> <<"a">>,
       default |-> <<"d","a">>,
       required |-> <<>>,
       depends |-> <<>> ],
    [ Name |-> <<"N">>,
       Type |-> Scalar("int"),
       arg |-> <<"n">>,
       env |-> <<"N">>,
       file |-> <<"n">>,
       default |-> default,
       required |-> <<>>,
       depends |-> <<>> ],
    [ Name |-> <<"Z">>,
       Type |-> Scalar("string"),
       arg |-> <<"z">>,
       env |-> <<"Z">>,
       file |-> <<"z">>,
       default |-> <<"d","z">>,
       required |-> <<>>,
       depends |-> <<>> ] >>

PassConfig == PassStruct(<<"1">>)

\* the same struct with a default text that is no integer
BadDefaultConfig == PassStruct(<<"x">>)

\* a struct with a field of each numeric kind parseStringToType has a case
\* for, untagged
NumericConfig == <<
    [ Name |-> <<"I">>,
       Type |-> Scalar("int"),
       arg |-> <<>>,
       env |-> <<>>,
       file |-> <<>>,
       default |-> <<>>,
       required |-> <<>>,
       depends |-> <<>> ],
    [ Name |-> <<"I","3","2">>,
       Type |-> Scalar("int32"),
       arg |-> <<>>,
       env |-> <<>>,
       file |-> <<>>,
       default |-> <<>>,
       required |-> <<>>,
       depends |-> <<>> ],
    [ Name |-> <<"I","6","4">>,
       Type |-> Scalar("int64"),
       arg |-> <<>>,
       env |-> <<>>,
       file |-> <<>>,
       default |-> <<>>,
       required |-> <<>>,
       depends |-> <<>> ],
    [ Name |-> <<"U">>,
       Type |-> Scalar("uint"),
       arg |-> <<>>,
       env |-> <<>>,
       file |-> <<>>,
       default |-> <<>>,
       required |-> <<>>,
       depends |-> <<>> ],
    [ Name |-> <<"U","3","2">>,
       Type |-> Scalar("uint32"),
       arg |-> <<>>,
       env |-> <<>>,
       file |-> <<>>,
       default |-> <<>>,
       required |-> <<>>,
       depends |-> <<>> ],
    [ Name |-> <<"U","6","4">>,
       Type |-> Scalar("uint64"),
       arg |-> <<>>,
       env |-> <<>>,
       file |-> <<>>,
       default |-> <<>>,
       required |-> <<>>,
       depends |-> <<>> ],
    [ Name |-> <<"F","3","2">>,
       Type |-> Scalar("float32"),
       arg |-> <<>>,
       env |-> <<>>,
       file |-> <<>>,
       default |-> <<>>,
       required |-> <<>>,
       depends |-> <<>> ],
    [ Name |-> <<"F","6","4">>,
       Type |-> Scalar("float64"),
       arg |-> <<>>,
       env |-> <<>>,
       file |-> <<>>,
       default |-> <<>>,
       required |-> <<>>,
       depends |-> <<>> ] >>

\* the struct type of each configuration variable of the process
TypeOf(id) ==
    CASE id = "cfg" -> TestConfig
      [] id = "appConfig" -> Config
      [] id = "kinds" -> SetFieldByKindTestConfig
      [] id = "types" -> SupportedTypesConfig
      [] id = "order" -> OrderConfig
      [] id = "numeric" -> NumericConfig
      [] id = "pass" -> PassConfig
      [] id = "badDefault" -> BadDefaultConfig

ConfigIds == {"cfg", "appConfig", "kinds", "types", "order", "pass", "badDefault", "numeric"}

FieldNames(T) == {T[i].Name : i \in 1..Len(T)}

\* the index of the field called name
FieldIndex(T, name) == CHOOSE i \in 1..Len(T) : T[i].Name = name

ZeroConfig(T) == [i \in 1..Len(T) |-> Zero(T[i].Type)]

(***************************************************************************)
(* mageconfig.go, helpers.go, help.go: the library.                        *)
(***************************************************************************)
argPrefix == "-"

defaultMageCommands == << <<"-","l">>, <<"-","h">> >>
defaultMageOptions == << <<"-","h">>, <<"-","t">>, <<"-","v">> >>

\* getTagOrDefault(field, tagArg)
getTagOrDefault(field) ==
    IF field.arg = <<>> THEN ToLower(field.Name) ELSE field.arg

\* isHelpRequested: every position of os.Args, the program name included
isHelpRequested(args) ==
    \E i \in 1..Len(args) :
        args[i] = <<"-","h","e","l","p">> \/ args[i] = <<"-","-","h","e","l","p">>

\* a scan for which a flag without a value is no value, boolean or not
RECURSIVE ArgScanNoBare(_, _, _, _)
ArgScanNoBare(args, i, argName, isBool) ==
    IF i > Len(args) THEN <<>>
    ELSE
      LET arg == TrimLeft(args[i], argPrefix)
          equalIndex == Index(arg, "=")
      IN  IF equalIndex > 0
          THEN IF SubSeq(arg, 1, equalIndex) = argName
               THEN SubSeq(arg, equalIndex + 2, Len(arg))
               ELSE ArgScanNoBare(args, i + 1, argName, isBool)
          ELSE IF arg = argName
                  /\ i + 1 <= Len(args) /\ ~HasPrefix(args[i + 1], <<argPrefix>>)
          THEN args[i + 1]
          ELSE ArgScanNoBare(args, i + 1, argName, isBool)

\* getArgValue: the loop from Go index i-1 on (args is 1-based here, so
\* the program name is args[1] and the scan starts at i = 2).
RECURSIVE ArgScan(_, _, _, _)
ArgScan(args, i, argName, isBool) ==
    IF i > Len(args) THEN <<>>
    ELSE
      LET arg == TrimLeft(args[i], argPrefix)
          equalIndex == Index(arg, "=")
      IN  IF equalIndex > 0
          THEN IF SubSeq(arg, 1, equalIndex) = argName
               THEN SubSeq(arg, equalIndex + 2, Len(arg))
               ELSE ArgScan(args, i + 1, argName, isBool)
          ELSE IF arg = argName
          THEN IF i + 1 <= Len(args) /\ ~HasPrefix(args[i + 1], <<argPrefix>>)
               THEN args[i + 1]
               ELSE IF isBool THEN <<"t","r","u","e">>
               ELSE ArgScan(args, i + 1, argName, isBool)
          ELSE ArgScan(args, i + 1, argName, isBool)

getArgValue(args, argName, isBool) == ArgScan(args, 2, argName, isBool)

\* initializeIsSet: one false entry per field name
initializeIsSet(T) == [n \in FieldNames(T) |-> FALSE]

(***************************************************************************)
(* A pass.  The closure each pass hands to setFields first looks the       *)
(* field's text up in its source; found says whether there is one.  The    *)
(* state of a Load call in progress is [cfg, isSet, err, panic].           *)
(***************************************************************************)
\* setDefault's closure: the default tag, absent when empty
defaultText(field) == [found |-> field.default # <<>>, text |-> field.default]

\* loadFromFile's closure: the file tag's key in the map read from the file
fileText(field, fileContent) ==
    IF field.file # <<>> /\ field.file \in DOMAIN fileContent
    THEN [found |-> TRUE, text |-> fileContent[field.file]]
    ELSE [found |-> FALSE, text |-> <<>>]

\* an environment lookup for which an empty variable is an absent one
envTextNonEmpty(field, environ) ==
    IF field.env # <<>> /\ field.env \in DOMAIN environ /\ environ[field.env] # <<>>
    THEN [found |-> TRUE, text |-> environ[field.env]]
    ELSE [found |-> FALSE, text |-> <<>>]

\* loadFromEnv's closure: os.LookupEnv of the env tag
envText(field, environ) ==
    IF field.env # <<>> /\ field.env \in DOMAIN environ
    THEN [found |-> TRUE, text |-> environ[field.env]]
    ELSE [found |-> FALSE, text |-> <<>>]

\* loadFromArgs's closure: getArgValue, an empty result meaning no value
argText(field, args) ==
    LET argValue == getArgValue(args, getTagOrDefault(field), field.Type.kind = "bool")
    IN  [found |-> argValue # <<>>, text |-> argValue]

\* a pass that goes on to the later fields after a failed conversion and
\* returns the error at its end
RECURSIVE setFieldsKeepGoing(_, _, _, _)
setFieldsKeepGoing(T, st, i, texts) ==
    LET set(r) ==
            IF r.panic THEN [st EXCEPT !.panic = TRUE]
            ELSE IF r.err # Nil
            THEN [setFieldsKeepGoing(T, st, i + 1, texts) EXCEPT !.err = r.err]
            ELSE setFieldsKeepGoing(T,
                           [st EXCEPT !.cfg[i] = r.v, !.isSet[T[i].Name] = TRUE],
                           i + 1, texts)
    IN  IF i > Len(T) THEN st
        ELSE IF ~texts[i].found THEN setFieldsKeepGoing(T, st, i + 1, texts)
        ELSE set(setFieldByKind(T[i], st.cfg[i], texts[i].text))

\* setFields: the fields in declared order from field i on; the first
\* error (or panic) ends the pass with the earlier fields assigned.
RECURSIVE setFields(_, _, _, _)
setFields(T, st, i, texts) ==
    LET set(r) ==
            IF r.err # Nil \/ r.panic
            THEN [st EXCEPT !.err = r.err, !.panic = r.panic]
            ELSE setFields(T,
                           [st EXCEPT !.cfg[i] = r.v, !.isSet[T[i].Name] = TRUE],
                           i + 1, texts)
    IN  IF i > Len(T) THEN st
        ELSE IF ~texts[i].found THEN setFields(T, st, i + 1, texts)
        ELSE set(setFieldByKind(T[i], st.cfg[i], texts[i].text))

\* a defaults pass that assigns the defaults and marks no field set
setDefaultUnmarked(T, st) ==
    [setFields(T, st, 1, [i \in 1..Len(T) |-> defaultText(T[i])])
        EXCEPT !.isSet = st.isSet]

setDefault(T, st) ==
    setFields(T, st, 1, [i \in 1..Len(T) |-> defaultText(T[i])])

(***************************************************************************)
(* The configuration file.  A file is [kind, lines]: kind "missing" (open  *)
(* fails with ErrNotExist), "denied" (open fails otherwise), "readerr"     *)
(* (the scanner ends with an error) or "file".                             *)
(***************************************************************************)
Quotes == {"\"", "'"}

\* one line of the file into the map; a value that is one quote character
\* makes value[1 : len(value)-1] a slice with low > high: a Go panic
RECURSIVE ReadLines(_, _, _)
ReadLines(lines, i, fileContent) ==
    LET store(key, value) ==
            LET quoted == /\ Len(value) > 0
                          /\ value[1] \in Quotes
                          /\ value[Len(value)] = value[1]
                stored == IF quoted THEN SubSeq(value, 2, Len(value) - 1) ELSE value
            IN  IF quoted /\ Len(value) = 1
                THEN [m |-> fileContent, panic |-> TRUE]
                ELSE ReadLines(lines, i + 1,
                               [k \in DOMAIN fileContent \cup {key} |->
                                   IF k = key THEN stored ELSE fileContent[k]])
        line(parts) ==
            IF Len(parts) # 2 THEN ReadLines(lines, i + 1, fileContent)
            ELSE store(TrimSpace(parts[1]), TrimSpace(parts[2]))
    IN  IF i > Len(lines) THEN [m |-> fileContent, panic |-> FALSE]
        ELSE line(SplitN2(lines[i], ":"))

\* a file pass for which a file that does not exist is an error
loadFromFileStrict(T, st, path, files) ==
    LET load(rd) ==
            IF rd.panic THEN [st EXCEPT !.panic = TRUE]
            ELSE IF files[path].kind = "readerr" THEN [st EXCEPT !.err = ErrFile(path)]
            ELSE setFields(T, st, 1, [i \in 1..Len(T) |-> fileText(T[i], rd.m)])
    IN  IF path = <<>> THEN st
        ELSE IF files[path].kind \in {"missing", "denied"}
        THEN [st EXCEPT !.err = ErrFile(path)]
        ELSE load(ReadLines(files[path].lines, 1, <<>>))

loadFromFile(T, st, path, files) ==
    LET load(rd) ==
            IF rd.panic THEN [st EXCEPT !.panic = TRUE]
            ELSE IF files[path].kind = "readerr" THEN [st EXCEPT !.err = ErrFile(path)]
            ELSE setFields(T, st, 1, [i \in 1..Len(T) |-> fileText(T[i], rd.m)])
    IN  IF path = <<>> THEN st
        ELSE IF files[path].kind = "missing" THEN st
        ELSE IF files[path].kind = "denied" THEN [st EXCEPT !.err = ErrFile(path)]
        ELSE load(ReadLines(files[path].lines, 1, <<>>))

loadFromEnv(T, st, environ) ==
    setFields(T, st, 1, [i \in 1..Len(T) |-> envText(T[i], environ)])

loadFromArgs(T, st, args) ==
    setFields(T, st, 1, [i \in 1..Len(T) |-> argText(T[i], args)])

\* a dependency check that looks at the first name of the list only
CheckFirstDepend(depends, j, isSet) ==
    IF j > Len(depends) THEN Nil
    ELSE IF depends[j] \notin DOMAIN isSet \/ ~isSet[depends[j]]
    THEN ErrDependsNotSet(depends[j])
    ELSE Nil

\* the dependencies of one field, in the order listed
RECURSIVE CheckDepends(_, _, _)
CheckDepends(depends, j, isSet) ==
    IF j > Len(depends) THEN Nil
    ELSE IF depends[j] \notin DOMAIN isSet \/ ~isSet[depends[j]]
    THEN ErrDependsNotSet(depends[j])
    ELSE CheckDepends(depends, j + 1, isSet)

\* a validation that checks a field's dependencies before its required tag
RECURSIVE CheckFieldsDependsFirst(_, _, _)
CheckFieldsDependsFirst(T, i, isSet) ==
    IF i > Len(T) THEN Nil
    ELSE
      LET e == IF T[i].depends # <<>>
               THEN CheckDepends(Split(T[i].depends, ","), 1, isSet)
               ELSE Nil
      IN  IF e # Nil THEN e
          ELSE IF /\ T[i].required = <<"t","r","u","e">>
                  /\ (T[i].Name \notin DOMAIN isSet \/ ~isSet[T[i].Name])
          THEN ErrRequiredNotSet(T[i].Name)
          ELSE CheckFieldsDependsFirst(T, i + 1, isSet)

\* checkRequiredAndDepends from field i on
RECURSIVE CheckFields(_, _, _)
CheckFields(T, i, isSet) ==
    IF i > Len(T) THEN Nil
    ELSE IF /\ T[i].required = <<"t","r","u","e">>
            /\ (T[i].Name \notin DOMAIN isSet \/ ~isSet[T[i].Name])
    THEN ErrRequiredNotSet(T[i].Name)
    ELSE
      LET e == IF T[i].depends # <<>>
               THEN CheckDepends(Split(T[i].depends, ","), 1, isSet)
               ELSE Nil
      IN  IF e # Nil THEN e ELSE CheckFields(T, i + 1, isSet)

\* a validation that checks the dependencies and no required tag
checkDependsOnly(T, isSet) ==
    LET bad == {i \in 1..Len(T) :
                   /\ T[i].depends # <<>>
                   /\ CheckDepends(Split(T[i].depends, ","), 1, isSet) # Nil}
    IN  IF bad = {} THEN Nil
        ELSE LET first == CHOOSE i \in bad : \A j \in bad : i <= j
             IN  CheckDepends(Split(T[first].depends, ","), 1, isSet)

checkRequiredAndDepends(T, isSet) == CheckFields(T, 1, isSet)

\* a check that looks for a mage command right after the program name only
isMageCommandFirst(args) ==
    Len(args) >= 2 /\ contains(defaultMageCommands, args[2])

\* Load's loop over os.Args (the program name included): a dash token that
\* is one of the default mage commands
isMageCommand(args) ==
    \E i \in 1..Len(args) :
        HasPrefix(args[i], <<argPrefix>>) /\ contains(defaultMageCommands, args[i])

\* cfgType.Kind() == reflect.Pointer && cfgType.Elem().Kind() == reflect.Struct
isPointerToStruct(target) == target.ptr

\* a once.Do whose function never sets isLoaded
onceDoNothing(loaded, onceDone) == loaded

\* once.Do(func() { isLoaded = true }): the new value of isLoaded
onceDo(loaded, onceDone) == IF onceDone THEN loaded ELSE TRUE

\* Load(cfg, file) as a function of the process state it reads.  target is
\* [ptr, id]: a pointer to the configuration variable id, or (ptr = FALSE)
\* a copy of its struct value.  The result is the new state and what the
\* call returned; stage names the statement the call ended at.
Load(target, path, args, environ, files, configs, loaded, onceDone) ==
    LET T == TypeOf(target.id)
        keep == [cfg |-> configs[target.id], isSet |-> initializeIsSet(T),
                 err |-> Nil, panic |-> FALSE,
                 isLoaded |-> loaded, once |-> onceDone, exit |-> FALSE]
        st0 == [cfg |-> configs[target.id], isSet |-> initializeIsSet(T),
                err |-> Nil, panic |-> FALSE, stage |-> "default"]
        failed(st) == st.err # Nil \/ st.panic
        \* if err := loadFromFile(cfg, file, isSet); err != nil { return err }
        thenFile(st1) ==
            IF failed(st1) THEN st1
            ELSE [loadFromFile(T, st1, path, files) EXCEPT !.stage = "file"]
        thenEnv(st2) ==
            IF failed(st2) THEN st2
            ELSE [loadFromEnv(T, st2, environ) EXCEPT !.stage = "env"]
        thenArgs(st3) ==
            IF failed(st3) THEN st3
            ELSE [loadFromArgs(T, st3, args) EXCEPT !.stage = "args"]
        \* once.Do(func() { isLoaded = true }); checkRequiredAndDepends
        thenValidate(st4) ==
            IF failed(st4)
            THEN [cfg |-> st4.cfg, isSet |-> st4.isSet, err |-> st4.err,
                  panic |-> st4.panic, isLoaded |-> loaded, once |-> onceDone,
                  exit |-> FALSE, stage |-> st4.stage]
            ELSE [cfg |-> st4.cfg, isSet |-> st4.isSet,
                  err |-> checkRequiredAndDepends(T, st4.isSet), panic |-> FALSE,
                  isLoaded |-> onceDo(loaded, onceDone), once |-> TRUE,
                  exit |-> FALSE, stage |-> "validate"]
    IN  IF isHelpRequested(args)
        THEN \* printUsage(reflect.TypeOf(cfg).Elem()); os.Exit(0): Elem panics
             \* on a struct type
             [keep EXCEPT !.exit = target.ptr, !.panic = ~target.ptr] @@ [stage |-> "help"]
        ELSE IF loaded THEN keep @@ [stage |-> "loaded"]
        ELSE IF isMageCommand(args) THEN keep @@ [stage |-> "mage"]
        ELSE IF ~isPointerToStruct(target) THEN [keep EXCEPT !.err = ErrShape] @@ [stage |-> "shape"]
        ELSE thenValidate(thenArgs(thenEnv(thenFile(setDefault(T, st0)))))

\* a scan that cuts before the first dash token, a mage option or not
RECURSIVE DropScanAnyDash(_, _)
DropScanAnyDash(args, i) ==
    IF i > Len(args) THEN args
    ELSE IF HasPrefix(args[i], <<argPrefix>>)
    THEN SubSeq(args, 1, i - 1)
    ELSE DropScanAnyDash(args, i + 1)

\* DropArgsAfterTarget: os.Args cut before the first dash token (from
\* position 0 on) that is no default mage option
RECURSIVE DropScan(_, _)
DropScan(args, i) ==
    IF i > Len(args) THEN args
    ELSE IF HasPrefix(args[i], <<argPrefix>>) /\ ~contains(defaultMageOptions, args[i])
    THEN SubSeq(args, 1, i - 1)
    ELSE DropScan(args, i + 1)

DropArgsAfterTarget(args, loaded) == IF ~loaded THEN args ELSE DropScan(args, 1)

(***************************************************************************)
(* The process: its arguments, environment and files, the configuration    *)
(* variables of the caller, and the package variables isLoaded and once.   *)
(* last records the latest library call and what it returned, calls       *)
(* counts the calls made, and completed says that some Load call has run   *)
(* its four passes to the end.  running holds the Load calls in progress   *)
(* on goroutines of their own, each with its position in Load.             *)
(***************************************************************************)
VARIABLES osArgs, environ, files, configs, isLoaded, once, proc, last, calls,
          completed, running

vars == <<osArgs, environ, files, configs, isLoaded, once, proc, last, calls,
          completed, running>>

\* no Load call in progress on another goroutine
NoneRunning == <<>>

Prog == <<"c","m","d">>

\* the path the example passes to Load
ConfigPath == <<"m","a","g","e",".","c","o","n","f","i","g">>

\* argument tokens of the runs explored
Tokens == {
    <<"-","f","i","e","l","d","5","=","a">>,
    <<"-","f","i","e","l","d","5","=">>,
    <<"-","d","f","i","e","l","d","0">>,
    <<"-","d","f","i","e","l","d","1">>,
    <<"-","l">>,
    <<"-","h","e","l","p">>,
    <<"-","-","h","e","l","p">>,
    <<"-","-","a","p","i","-","k","e","y">>,
    <<"k">> }

\* argument tokens of the runs that explore the argument scan
ScanTokens == {
    <<"-","d","f","i","e","l","d","0">>,
    <<"-","-","d","f","i","e","l","d","0">>,
    <<"-","d","f","i","e","l","d","0","=","f","a","l","s","e">>,
    <<"-","f","i","e","l","d","5">>,
    <<"-","-","f","i","e","l","d","5">>,
    <<"-","f","i","e","l","d","5","=","a">>,
    <<"-","-","f","i","e","l","d","5","=","b","=","c">>,
    <<"-","f","i","e","l","d","5","=">>,
    <<"f","i","e","l","d","5","=","z">>,
    <<"f","a","l","s","e">>,
    <<"k">>,
    <<"-","v">>,
    <<>> }

RECURSIVE SeqsUpTo(_, _)
SeqsUpTo(S, n) ==
    IF n = 0 THEN {<<>>}
    ELSE LET shorter == SeqsUpTo(S, n - 1)
         IN  shorter \cup {Append(q, x) : q \in {r \in shorter : Len(r) = n - 1}, x \in S}

ArgLists == {<<Prog>> \o q : q \in SeqsUpTo(Tokens, MaxArgs)}

ScanArgLists == {<<Prog>> \o q : q \in SeqsUpTo(ScanTokens, MaxScanArgs)}

\* environments of the runs explored: the variables of FullEnv that are set
FullEnv ==
    (<<"F","I","E","L","D","3">> :> <<"e","n","v","3">>) @@
    (<<"F","I","E","L","D","5">> :> <<"e","n","v","5">>) @@
    (<<"F","I","E","L","D","6">> :> <<"r","e","q","u","i","r","e","d">>) @@
    (<<"D","B","_","U","R","L">> :> <<"p","o","s","t","g","r","e","s","q","l",":","/","/","l","o","c","a","l","h","o","s","t",":","5","4","3","2">>) @@
    (<<"A","P","I","_","K","E","Y">> :> <<"a","b","c","1","2","3">>) @@
    (<<"M","A","X","_","R","E","T","R","I","E","S">> :> <<"m","a","n","y">>)

EnvSets == {
    {},
    {<<"F","I","E","L","D","6">>},
    {<<"F","I","E","L","D","3">>, <<"F","I","E","L","D","5">>, <<"F","I","E","L","D","6">>},
    {<<"A","P","I","_","K","E","Y">>},
    {<<"D","B","_","U","R","L">>, <<"A","P","I","_","K","E","Y">>},
    {<<"D","B","_","U","R","L">>, <<"A","P","I","_","K","E","Y">>, <<"M","A","X","_","R","E","T","R","I","E","S">>} }

\* an environment whose variables are present with the empty string
EmptyEnv ==
    (<<"F","I","E","L","D","5">> :> <<>>) @@
    (<<"F","I","E","L","D","6">> :> <<>>) @@
    (<<"M","A","X","_","R","E","T","R","I","E","S">> :> <<>>)

Environs == {[n \in S |-> FullEnv[n]] : S \in EnvSets} \cup {EmptyEnv}

\* contents of the configuration file of the runs explored
TestFile == <<
    <<"f","i","e","l","d","4",":"," ","f","i","l","e","4">>,
    <<"f","i","e","l","d","5",":"," ","f","i","l","e","5">>,
    <<"f","i","e","l","d","6",":"," ","f","i","l","e","6">> >>

ExampleFile == <<
    <<"#"," ","s","e","t","t","i","n","g","s">>,
    <<"d","b","U","R","L",":"," ","\"","d","b",".","l","o","c","a","l","\"">>,
    <<"a","p","i","K","e","y",":","k","e","y">>,
    <<"f","i","e","l","d","5",":"," ","f","i","l","e","5">> >>

FileStates == {
    [kind |-> "missing", lines |-> <<>>],
    [kind |-> "denied", lines |-> <<>>],
    [kind |-> "readerr", lines |-> TestFile],
    [kind |-> "file", lines |-> TestFile],
    [kind |-> "file", lines |-> ExampleFile] }

Targets == {[ptr |-> TRUE, id |-> "cfg"], [ptr |-> TRUE, id |-> "appConfig"],
            [ptr |-> FALSE, id |-> "cfg"]}

Paths == {<<>>, ConfigPath}

NoCall ==
    [op |-> "none", target |-> [ptr |-> TRUE, id |-> "cfg"], path |-> <<>>,
     stage |-> "none", err |-> Nil, isSet |-> initializeIsSet(TestConfig),
     pre |-> ZeroConfig(TestConfig), argsPre |-> <<Prog>>, loadedPre |-> FALSE,
     completedPre |-> FALSE]

Init ==
    /\ osArgs \in ArgLists
    /\ environ \in Environs
    /\ files \in {[p \in {ConfigPath} |-> f] : f \in FileStates}
    /\ configs = [id \in ConfigIds |-> ZeroConfig(TypeOf(id))]
    /\ isLoaded = FALSE
    /\ once = FALSE
    /\ proc = "running"
    /\ last = NoCall
    /\ calls = 0
    /\ completed = FALSE
    /\ running = NoneRunning

\* the caller calls Load(target, path)
CallLoad(target, path) ==
    /\ proc = "running"
    /\ calls < MaxCalls
    /\ \E r \in {Load(target, path, osArgs, environ, files, configs, isLoaded, once)} :
           /\ configs' = IF target.ptr THEN [configs EXCEPT ![target.id] = r.cfg]
                         ELSE configs
           /\ isLoaded' = r.isLoaded
           /\ once' = r.once
           /\ proc' = IF r.panic THEN "panicked" ELSE IF r.exit THEN "exited" ELSE "running"
           /\ last' = [op |-> "Load", target |-> target, path |-> path,
                       stage |-> r.stage, err |-> r.err, isSet |-> r.isSet,
                       pre |-> configs[target.id], argsPre |-> osArgs,
                       loadedPre |-> isLoaded, completedPre |-> completed]
           /\ completed' = (completed \/ r.stage = "validate")
    /\ calls' = calls + 1
    /\ UNCHANGED <<osArgs, environ, files, running>>

\* the caller calls DropArgsAfterTarget()
CallDropArgsAfterTarget ==
    /\ proc = "running"
    /\ calls < MaxCalls
    /\ osArgs' = DropArgsAfterTarget(osArgs, isLoaded)
    /\ last' = [NoCall EXCEPT !.op = "DropArgsAfterTarget", !.argsPre = osArgs,
                              !.loadedPre = isLoaded, !.completedPre = completed]
    /\ calls' = calls + 1
    /\ UNCHANGED <<environ, files, configs, isLoaded, once, proc, completed, running>>

Next ==
    \/ \E target \in Targets, path \in Paths : CallLoad(target, path)
    \/ CallDropArgsAfterTarget

Spec == Init /\ [][Next]_vars

(***************************************************************************)
(* The runs that explore the argument scan: one configuration variable,    *)
(* no file, and argument lists over ScanTokens.                            *)
(***************************************************************************)
InitArgs ==
    /\ osArgs \in ScanArgLists
    /\ environ \in {[n \in S |-> FullEnv[n]] : S \in {{}, {<<"F","I","E","L","D","5">>, <<"F","I","E","L","D","6">>}}}
    /\ files = [p \in {ConfigPath} |-> [kind |-> "missing", lines |-> <<>>]]
    /\ configs = [id \in ConfigIds |-> ZeroConfig(TypeOf(id))]
    /\ isLoaded = FALSE
    /\ once = FALSE
    /\ proc = "running"
    /\ last = NoCall
    /\ calls = 0
    /\ completed = FALSE
    /\ running = NoneRunning

NextArgs == CallLoad([ptr |-> TRUE, id |-> "cfg"], <<>>)

SpecArgs == InitArgs /\ [][NextArgs]_vars

(***************************************************************************)
(* The runs that explore conversion and naming: the records of untagged    *)
(* fields, with argument lists over KindTokens.                            *)
(***************************************************************************)
KindTokens == {
    <<"-","s","t","r","i","n","g","=","x">>,
    <<"-","s","t","r","i","n","g","s","l","i","c","e","=","o","n","e",",","t","w","o",",","t","h","r","e","e">>,
    <<"-","s","t","r","i","n","g","s","l","i","c","e","="," ","a"," ",",",",","b">>,
    <<"-","i","n","t","m","a","p","=","k","e","y","1",":","1",",","k","e","y","2",":","2">>,
    <<"-","i","n","t","m","a","p","=","k","e","y","1",",","k","e","y","2",":","2">>,
    <<"-","i","n","t","m","a","p","=","a",":","1",":","2">>,
    <<"-","i","n","t","m","a","p","=","k",":","1",",">>,
    <<"-","i","n","t","s","l","i","c","e","=","1",","," ","2",",","3">>,
    <<"-","i","n","t","s","l","i","c","e","=","1",",","x",",","3">>,
    <<"-","t","e","x","t","m","a","p","=","a",":","1",":","2",",","b",":"," ","c">>,
    <<"-","t","e","x","t","m","a","p","=","a",":","1",",","a",":","2">> }

KindArgLists == {<<Prog>> \o q : q \in SeqsUpTo(KindTokens, MaxKindArgs)}

\* variables named as the lower-cased field names
KindEnv ==
    (<<"s","t","r","i","n","g">> :> <<"e">>) @@
    (<<"i","n","t","s","l","i","c","e">> :> <<"4",",","5">>)

\* a file keyed by the lower-cased field names
KindFile == <<
    <<"s","t","r","i","n","g",":"," ","f">>,
    <<"t","e","x","t","m","a","p",":"," ","k",":","v">> >>

\* the record a caller fills in before calling Load
PresetTypes == <<SliceV(<<IntV(FALSE, <<"7">>)>>), MapV(<<"p">> :> StringV(<<"q">>))>>

KindTargets == {[ptr |-> TRUE, id |-> "kinds"], [ptr |-> TRUE, id |-> "types"]}

InitKinds ==
    /\ osArgs \in KindArgLists
    /\ environ \in {<<>>, KindEnv}
    /\ files \in {[p \in {ConfigPath} |-> f] :
                     f \in {[kind |-> "missing", lines |-> <<>>],
                            [kind |-> "file", lines |-> KindFile]}}
    /\ configs \in {[id \in ConfigIds |-> ZeroConfig(TypeOf(id))],
                     [id \in ConfigIds |->
                          IF id = "types" THEN PresetTypes ELSE ZeroConfig(TypeOf(id))]}
    /\ isLoaded = FALSE
    /\ once = FALSE
    /\ proc = "running"
    /\ last = NoCall
    /\ calls = 0
    /\ completed = FALSE
    /\ running = NoneRunning

NextKinds == \E target \in KindTargets : CallLoad(target, ConfigPath)

SpecKinds == InitKinds /\ [][NextKinds]_vars


(***************************************************************************)
(* The runs that explore the reading of the configuration file: the tests' *)
(* record, and files of up to MaxLines lines over FileLines.               *)
(***************************************************************************)
FileLines == {
    <<"f","i","e","l","d","4",":"," ","f","i","l","e","4">>,
    <<"f","i","e","l","d","4"," ",":"," "," ","s","p","a","c","e","d"," "," ">>,
    <<"f","i","e","l","d","4",":","a",":","b">>,
    <<"n","o","c","o","l","o","n">>,
    <<"o","t","h","e","r",":"," ","x">>,
    <<"o","t","h","e","r",":"," ","'">>,
    <<"f","i","e","l","d","5",":"," ","\"","q","\"">>,
    <<"f","i","e","l","d","5",":"," ","'">>,
    <<"f","i","e","l","d","5",":"," ","'","'">>,
    <<"f","i","e","l","d","5",":"," ","\"","a","'">>,
    <<"f","i","e","l","d","5",":">>,
    <<":"," ","v">>,
    <<"f","i","e","l","d","6",":"," ","'","'","x","'","'">> }

FileTexts == SeqsUpTo(FileLines, MaxLines)

InitFile ==
    /\ osArgs \in {<<Prog>>, <<Prog, <<"-","f","i","e","l","d","5","=","a">> >>}
    /\ environ = <<>>
    /\ files \in {[p \in {ConfigPath} |-> [kind |-> "file", lines |-> t]] :
                     t \in FileTexts}
    /\ configs = [id \in ConfigIds |-> ZeroConfig(TypeOf(id))]
    /\ isLoaded = FALSE
    /\ once = FALSE
    /\ proc = "running"
    /\ last = NoCall
    /\ calls = 0
    /\ completed = FALSE
    /\ running = NoneRunning

NextFile == CallLoad([ptr |-> TRUE, id |-> "cfg"], ConfigPath)

SpecFile == InitFile /\ [][NextFile]_vars

(***************************************************************************)
(* The runs that explore DropArgsAfterTarget: a mage command line of a     *)
(* target, mage options and arguments, on which the magefile calls Load    *)
(* and DropArgsAfterTarget.                                                *)
(***************************************************************************)
DropTokens == {
    <<"s","h","o","w">>,
    <<"-","v">>,
    <<"-","t">>,
    <<"-","h">>,
    <<"-","d","f","i","e","l","d","0">>,
    <<"-","-","f","i","e","l","d","5","=","a">>,
    <<"k">> }

DropArgLists == {<<Prog>> \o q : q \in SeqsUpTo(DropTokens, MaxDropArgs)}

InitDrop ==
    /\ osArgs \in DropArgLists
    /\ environ = <<>>
    /\ files = [p \in {ConfigPath} |-> [kind |-> "missing", lines |-> <<>>]]
    /\ configs = [id \in ConfigIds |-> ZeroConfig(TypeOf(id))]
    /\ isLoaded = FALSE
    /\ once = FALSE
    /\ proc = "running"
    /\ last = NoCall
    /\ calls = 0
    /\ completed = FALSE
    /\ running = NoneRunning

NextDrop ==
    \/ CallLoad([ptr |-> TRUE, id |-> "cfg"], ConfigPath)
    \/ CallDropArgsAfterTarget

SpecDrop == InitDrop /\ [][NextDrop]_vars

(***************************************************************************)
(* The runs that explore the validation: the record of OrderConfig, each   *)
(* of whose fields an argument sets.                                       *)
(***************************************************************************)
OrderTokens == {
    <<"-","m","a","i","n","=","1">>,
    <<"-","o","t","h","e","r","=","1">>,
    <<"-","e","x","t","r","a","=","1">>,
    <<"-","l","a","s","t","=","1">> }

OrderArgLists == {<<Prog>> \o q : q \in SeqsUpTo(OrderTokens, MaxOrderArgs)}

InitOrder ==
    /\ osArgs \in OrderArgLists
    /\ environ = <<>>
    /\ files = [p \in {ConfigPath} |-> [kind |-> "missing", lines |-> <<>>]]
    /\ configs = [id \in ConfigIds |-> ZeroConfig(TypeOf(id))]
    /\ isLoaded = FALSE
    /\ once = FALSE
    /\ proc = "running"
    /\ last = NoCall
    /\ calls = 0
    /\ completed = FALSE
    /\ running = NoneRunning

NextOrder == CallLoad([ptr |-> TRUE, id |-> "order"], <<>>)

SpecOrder == InitOrder /\ [][NextOrder]_vars

(***************************************************************************)
(* The runs that explore the order of the passes and their failures: the   *)
(* records of PassConfig and BadDefaultConfig, with a file, an environment *)
(* and arguments that each hold a text for every field, the text for the   *)
(* int field an integer or not.                                            *)
(***************************************************************************)
PassTokens == {
    <<"-","a","=","1">>,
    <<"-","n","=","2">>,
    <<"-","n","=","x">>,
    <<"-","z","=","3">> }

PassArgLists == {<<Prog>> \o q : q \in SeqsUpTo(PassTokens, MaxPassArgs)}

PassEnv(n) ==
    (<<"A">> :> <<"e","a">>) @@
    (<<"N">> :> n) @@
    (<<"Z">> :> <<"e","z">>)

PassEnvirons == {<<>>, PassEnv(<<"7">>), PassEnv(<<"e","n">>)}

PassFile(n) == <<
    <<"a",":"," ","f","a">>,
    <<"n",":"," ">> \o n,
    <<"z",":"," ","f","z">> >>

PassFileStates == {
    [kind |-> "missing", lines |-> <<>>],
    [kind |-> "denied", lines |-> <<>>],
    [kind |-> "readerr", lines |-> PassFile(<<"5">>)],
    [kind |-> "file", lines |-> PassFile(<<"5">>)],
    [kind |-> "file", lines |-> PassFile(<<"f","n">>)] }

PassTargets == {[ptr |-> TRUE, id |-> "pass"], [ptr |-> TRUE, id |-> "badDefault"]}

InitPasses ==
    /\ osArgs \in PassArgLists
    /\ environ \in PassEnvirons
    /\ files \in {[p \in {ConfigPath} |-> f] : f \in PassFileStates}
    /\ configs = [id \in ConfigIds |-> ZeroConfig(TypeOf(id))]
    /\ isLoaded = FALSE
    /\ once = FALSE
    /\ proc = "running"
    /\ last = NoCall
    /\ calls = 0
    /\ completed = FALSE
    /\ running = NoneRunning

NextPasses == \E target \in PassTargets : CallLoad(target, ConfigPath)

SpecPasses == InitPasses /\ [][NextPasses]_vars

(***************************************************************************)
(* The runs that explore the numeric kinds: the record of NumericConfig,   *)
(* and for each field an argument with a small number, with a number just  *)
(* beyond the range of the field's width, or with something else.          *)
(***************************************************************************)
NumericTokens == {
    <<"-","i","=","7">>,
    <<"-","i","3","2","=","7">>,
    <<"-","i","6","4","=","7">>,
    <<"-","u","=","7">>,
    <<"-","u","3","2","=","7">>,
    <<"-","u","6","4","=","7">>,
    <<"-","f","3","2","=","7">>,
    <<"-","f","6","4","=","7">>,
    <<"-","i","=","-","9","2","2","3","3","7","2","0","3","6","8","5","4","7","7","5","8","0","8">>,
    <<"-","i","=","9","2","2","3","3","7","2","0","3","6","8","5","4","7","7","5","8","0","8">>,
    <<"-","i","3","2","=","2","1","4","7","4","8","3","6","4","8">>,
    <<"-","i","3","2","=","x">>,
    <<"-","i","6","4","=","9","2","2","3","3","7","2","0","3","6","8","5","4","7","7","5","8","0","8">>,
    <<"-","u","=","1","8","4","4","6","7","4","4","0","7","3","7","0","9","5","5","1","6","1","6">>,
    <<"-","u","3","2","=","4","2","9","4","9","6","7","2","9","6">>,
    <<"-","u","6","4","=","1","8","4","4","6","7","4","4","0","7","3","7","0","9","5","5","1","6","1","6">>,
    <<"-","f","3","2","=","1",".","5">>,
    <<"-","f","3","2","=","1","e","3","9">>,
    <<"-","f","6","4","=","1",".","5">>,
    <<"-","f","6","4","=","1","e","3","9">>,
    <<"-","f","6","4","=","1","e","3","0","9">>,
    <<"-","f","6","4","=","-","2",".","5","0","e","-","3">>,
    <<"-","f","6","4","=","1",".","5",".","2">> }

NumericArgLists == {<<Prog>> \o q : q \in SeqsUpTo(NumericTokens, MaxNumericArgs)}

InitNumeric ==
    /\ osArgs \in NumericArgLists
    /\ environ = <<>>
    /\ files = [p \in {ConfigPath} |-> [kind |-> "missing", lines |-> <<>>]]
    /\ configs = [id \in ConfigIds |-> ZeroConfig(TypeOf(id))]
    /\ isLoaded = FALSE
    /\ once = FALSE
    /\ proc = "running"
    /\ last = NoCall
    /\ calls = 0
    /\ completed = FALSE
    /\ running = NoneRunning

NextNumeric == CallLoad([ptr |-> TRUE, id |-> "numeric"], <<>>)

SpecNumeric == InitNumeric /\ [][NextNumeric]_vars

(***************************************************************************)
(* Load on two goroutines at once, each on a record of its own.  The       *)
(* statements of Load that touch what the goroutines share are the read of *)
(* isLoaded at its head and once.Do at its end; what lies between reads    *)
(* os.Args, the environment and the file and writes the call's own record. *)
(* A call in progress is [pc, target, path, seen, stage, err]: seen is     *)
(* what the call read in isLoaded, stage and err what its passes and       *)
(* validation came to.                                                     *)
(***************************************************************************)
Goroutines == {1, 2}

\* a read of isLoaded that may find any value
seenLoadedAny(loaded) == {TRUE, FALSE}

\* if isLoaded { return nil }: the read is not ordered with the write in
\* another goroutine's once.Do, so it finds the value written or the
\* initial false
seenLoaded(loaded) == {loaded, FALSE}

ConcFiles == {[kind |-> "missing", lines |-> <<>>], [kind |-> "file", lines |-> TestFile]}

InitConc ==
    /\ osArgs \in ArgLists
    /\ environ \in Environs
    /\ files \in {[p \in {ConfigPath} |-> f] : f \in ConcFiles}
    /\ configs = [id \in ConfigIds |-> ZeroConfig(TypeOf(id))]
    /\ isLoaded = FALSE
    /\ once = FALSE
    /\ proc = "running"
    /\ last = NoCall
    /\ calls = 0
    /\ completed = FALSE
    /\ running = [g \in Goroutines |->
                     [pc |-> "start",
                      target |-> [ptr |-> TRUE, id |-> IF g = 1 THEN "cfg" ELSE "appConfig"],
                      path |-> ConfigPath, seen |-> FALSE, stage |-> "none", err |-> Nil]]

\* Load, lines 56-64: the help check and the read of isLoaded
LoadEnter(g) ==
    /\ proc = "running"
    /\ running[g].pc = "start"
    /\ IF isHelpRequested(osArgs)
       THEN /\ proc' = "exited"
            /\ running' = [running EXCEPT ![g].stage = "help"]
       ELSE /\ \E seen \in seenLoaded(isLoaded) :
                   running' = [running EXCEPT ![g].seen = seen,
                                              ![g].stage = IF seen THEN "loaded" ELSE "none",
                                              ![g].pc = IF seen THEN "done" ELSE "passes"]
            /\ UNCHANGED proc
    /\ UNCHANGED <<osArgs, environ, files, configs, isLoaded, once, last, calls, completed>>

\* Load, lines 66-107 and the validation of line 115, which touch the
\* call's own record and set-tracking map only
LoadPasses(g) ==
    /\ proc = "running"
    /\ running[g].pc = "passes"
    /\ \E r \in {Load(running[g].target, running[g].path, osArgs, environ, files,
                       configs, FALSE, once)} :
           /\ configs' = [configs EXCEPT ![running[g].target.id] = r.cfg]
           /\ proc' = IF r.panic THEN "panicked" ELSE proc
           /\ running' = [running EXCEPT ![g].stage = r.stage, ![g].err = r.err,
                                          ![g].pc = IF r.stage = "validate" THEN "once"
                                                    ELSE "done"]
    /\ UNCHANGED <<osArgs, environ, files, isLoaded, once, last, calls, completed>>

\* Load, lines 110-115: once.Do, and the return of the validation's result
LoadOnce(g) ==
    /\ proc = "running"
    /\ running[g].pc = "once"
    /\ isLoaded' = onceDo(isLoaded, once)
    /\ once' = TRUE
    /\ completed' = TRUE
    /\ running' = [running EXCEPT ![g].pc = "done"]
    /\ UNCHANGED <<osArgs, environ, files, configs, proc, last, calls>>

NextConc ==
    \E g \in Goroutines :
        \/ LoadEnter(g)
        \/ LoadPasses(g)
        \/ LoadOnce(g)

SpecConc == InitConc /\ [][NextConc]_vars

(***************************************************************************)
(* What the claims speak of, read off the latest call.                     *)
(***************************************************************************)
PassStages == {"default", "file", "env", "args", "validate"}

\* the struct type and the record of the latest call
LastType == TypeOf(last.target.id)
LastConfig == configs[last.target.id]

\* the latest call was a Load that returned to its caller
Returned == last.op = "Load" /\ proc = "running"

\* the latest call was a Load that ran its four passes to the end, so that
\* the validation ran
RanPasses == last.op = "Load" /\ last.stage = "validate"

\* the key-to-value map of the file the latest call was given
LastFileContent ==
    IF last.path = <<>> \/ files[last.path].kind # "file" THEN <<>>
    ELSE ReadLines(files[last.path].lines, 1, <<>>).m

\* what each source held for field f at the latest call
LastDefault(f) == defaultText(f)
LastFile(f) == fileText(f, LastFileContent)
LastEnv(f) == envText(f, environ)
LastArg(f) == argText(f, last.argsPre)

\* some pass had a value for field f
Supplied(f) ==
    LastDefault(f).found \/ LastFile(f).found \/ LastEnv(f).found \/ LastArg(f).found

\* the text converted to the type of field i of the latest call's record
Converted(i, text) == setFieldByKind(LastType[i], last.pre[i], text).v

\* the precedence law for field i: argument, else environment, else file,
\* else default, else the value before the call
ByPrecedence(i) ==
    LET f == LastType[i]
    IN  IF LastArg(f).found THEN Converted(i, LastArg(f).text)
        ELSE IF LastEnv(f).found THEN Converted(i, LastEnv(f).text)
        ELSE IF LastFile(f).found THEN Converted(i, LastFile(f).text)
        ELSE IF LastDefault(f).found THEN Converted(i, LastDefault(f).text)
        ELSE last.pre[i]

\* field f names a file key and an environment variable (its argument
\* name always exists)
WiredToAll(f) == f.file # <<>> /\ f.env # <<>>

(***************************************************************************)
(* The argument tokens as the claims read them.                            *)
(***************************************************************************)
\* the name a token carries: its text without the leading dashes, up to
\* the first "="
ScanName(tok) ==
    LET arg == TrimLeft(tok, argPrefix)
        equalIndex == Index(arg, "=")
    IN  IF equalIndex > 0 THEN SubSeq(arg, 1, equalIndex) ELSE arg

\* token k is the first token of args that carries name
FirstNaming(args, k, name) ==
    ScanName(args[k]) = name /\ \A m \in 2..(k - 1) : ScanName(args[m]) # name

\* tok is -<name> or --<name>
StandaloneToken(tok, name) ==
    tok = <<"-">> \o name \/ tok = <<"-","-">> \o name

\* tok is -<name>=<value> or --<name>=<value>
KeyValueToken(tok, name) ==
    HasPrefix(tok, <<"-">> \o name \o <<"=">>) \/ HasPrefix(tok, <<"-","-">> \o name \o <<"=">>)

\* the text after the first "=" of tok
ValueText(tok) == SubSeq(tok, Index(tok, "=") + 2, Len(tok))

\* the value the arguments of the latest call state for field f: the text
\* after "=" of a -<name>=<value> token that is the first to name the
\* field, the empty text included, and what the scan finds otherwise
StatedArg(f) ==
    LET args == last.argsPre
        name == getTagOrDefault(f)
        K == {k \in 2..Len(args) :
                 KeyValueToken(args[k], name) /\ FirstNaming(args, k, name)}
    IN  IF K # {} THEN [found |-> TRUE, text |-> ValueText(args[CHOOSE k \in K : TRUE])]
        ELSE LastArg(f)

(***************************************************************************)
(* C1.  Precedence law: after a Load that ran its passes and returned      *)
(* success, every field wired to all the sources holds the argument value  *)
(* when the arguments state one, else the environment value, else the file *)
(* value, else the default, else the value it had before the call.         *)
(***************************************************************************)
C1_PrecedenceLaw ==
    (RanPasses /\ last.err = Nil) =>
        \A i \in 1..Len(LastType) :
            LET f == LastType[i]
            IN  WiredToAll(f) =>
                  LastConfig[i] =
                      IF StatedArg(f).found THEN Converted(i, StatedArg(f).text)
                      ELSE IF LastEnv(f).found THEN Converted(i, LastEnv(f).text)
                      ELSE IF LastFile(f).found THEN Converted(i, LastFile(f).text)
                      ELSE IF LastDefault(f).found THEN Converted(i, LastDefault(f).text)
                      ELSE last.pre[i]

(***************************************************************************)
(* What validation is to find, read off the sources (C2) and off the       *)
(* set-tracking map (C3) of the latest call.                               *)
(***************************************************************************)
\* field i is tagged required:"true" and no pass had a value for it
RequiredUnsupplied(i) ==
    LastType[i].required = <<"t","r","u","e">> /\ ~Supplied(LastType[i])

\* the names field i depends on, in the order of its depends tag
DependsOf(i) ==
    IF LastType[i].depends = <<>> THEN <<>> ELSE Split(LastType[i].depends, ",")

\* name is no field of the record, or a field no pass had a value for
NameUnsupplied(name) ==
    \/ name \notin FieldNames(LastType)
    \/ ~Supplied(LastType[FieldIndex(LastType, name)])

DependsUnsupplied(i) ==
    \E j \in 1..Len(DependsOf(i)) : NameUnsupplied(DependsOf(i)[j])

\* validation has something to report at field i
Violates(i) == RequiredUnsupplied(i) \/ DependsUnsupplied(i)

\* name has no set-tracking entry, or a false one
EntryUnset(name) == name \notin DOMAIN last.isSet \/ ~last.isSet[name]

RequiredEntryUnset(i) ==
    LastType[i].required = <<"t","r","u","e">> /\ EntryUnset(LastType[i].Name)

DependsEntryUnset(i) ==
    \E j \in 1..Len(DependsOf(i)) : EntryUnset(DependsOf(i)[j])

\* the first name of field i's depends tag that is not set
FirstUnsetDepend(i) ==
    LET D == DependsOf(i)
        j == CHOOSE k \in 1..Len(D) :
                 EntryUnset(D[k]) /\ \A m \in 1..(k - 1) : ~EntryUnset(D[m])
    IN  D[j]

EntryViolates(i) == RequiredEntryUnset(i) \/ DependsEntryUnset(i)

(***************************************************************************)
(* C2.  As stated: whenever a field tagged required:"true" is supplied by  *)
(* none of the four passes, a Load call that returns returns the           *)
(* required-not-set error naming that field.                               *)
(***************************************************************************)
C2_AsStated ==
    (Returned /\ last.target.ptr) =>
        \A i \in 1..Len(LastType) :
            RequiredUnsupplied(i) => last.err = ErrRequiredNotSet(LastType[i].Name)

\* C2, amended: when Load runs its four passes to the end and a required
\* field is supplied by none of them, Load returns an error, never success;
\* the error is the required-not-set error naming that field when no field
\* declared before it has something for validation to report.
C2_RequiredUnsetFails ==
    RanPasses =>
        \A i \in 1..Len(LastType) :
            RequiredUnsupplied(i) =>
                /\ last.err # Nil
                /\ (\A j \in 1..(i - 1) : ~Violates(j)) =>
                       last.err = ErrRequiredNotSet(LastType[i].Name)

\* validation ran with a required field no pass supplied, first in declared
\* order among what validation had to report, and Load named it
C2_RequiredUnsetReported ==
    /\ RanPasses
    /\ \E i \in 1..Len(LastType) :
          /\ RequiredUnsupplied(i)
          /\ \A j \in 1..(i - 1) : ~Violates(j)
          /\ last.err = ErrRequiredNotSet(LastType[i].Name)

(***************************************************************************)
(* C3.  As stated: whenever validation runs with an unset dependency of    *)
(* some field, Load fails with the dependency-not-set error naming an      *)
(* unset dependency of that field.                                         *)
(***************************************************************************)
C3_AsStated ==
    RanPasses =>
        \A i \in 1..Len(LastType) :
            DependsEntryUnset(i) =>
                \E j \in 1..Len(DependsOf(i)) :
                    /\ EntryUnset(DependsOf(i)[j])
                    /\ last.err = ErrDependsNotSet(DependsOf(i)[j])

\* C3, amended: when validation runs with an unset dependency of some field,
\* Load fails, whether or not the declaring field received a value; the
\* error is the dependency-not-set error naming the first unset name of that
\* field's list (not the declaring field) when the field is not itself
\* required and unset and no field declared before it has something for
\* validation to report.
C3_DependsUnsetFails ==
    RanPasses =>
        \A i \in 1..Len(LastType) :
            DependsEntryUnset(i) =>
                /\ last.err # Nil
                /\ (~RequiredEntryUnset(i) /\ \A j \in 1..(i - 1) : ~EntryViolates(j)) =>
                       last.err = ErrDependsNotSet(FirstUnsetDepend(i))

\* validation ran with a field that received a value while the second name
\* of its depends tag was not set, and Load named that dependency
C3_DependsUnsetReported ==
    /\ RanPasses
    /\ \E i \in 1..Len(LastType) :
          /\ DependsEntryUnset(i)
          /\ ~EntryUnset(LastType[i].Name)
          /\ ~EntryUnset(DependsOf(i)[1])
          /\ last.err = ErrDependsNotSet(FirstUnsetDepend(i))
          /\ last.err.text # LastType[i].Name

(***************************************************************************)
(* C4.  Every Load call whose destination is no pointer to a struct        *)
(* returns the error "config must be a pointer to a struct" and touches no *)
(* field, whatever the arguments; stated here for the calls made while     *)
(* isLoaded is false and no mage command is among the arguments.           *)
(***************************************************************************)
C4_ShapeErrorReturned ==
    (last.op = "Load" /\ ~last.target.ptr /\ ~last.loadedPre
        /\ ~isMageCommand(last.argsPre)) =>
        /\ proc = "running"
        /\ last.err = ErrShape
        /\ LastConfig = last.pre

(***************************************************************************)
(* C5.  As stated: a Load call (no help flag among the arguments) made     *)
(* after an earlier Load has completed runs the four passes and the        *)
(* validation on the record it is given.                                   *)
(***************************************************************************)
C5_AsStated ==
    (last.op = "Load" /\ last.target.ptr /\ last.completedPre
        /\ ~isHelpRequested(last.argsPre)) =>
        last.stage \in PassStages

\* C5, amended: a Load call on a pointer to a struct (no help flag) made
\* while isLoaded is false and no mage command is among the arguments runs
\* the passes; if it runs them to the end the record holds every field by
\* precedence and Load returns success exactly when validation has nothing
\* to report.  A Load call made after an earlier Load has run its passes to
\* the end runs no pass and no validation: it returns success and leaves
\* the record it is given as it was.
C5_PassesUntilLoaded ==
    (last.op = "Load" /\ ~isHelpRequested(last.argsPre)) =>
        /\ (last.target.ptr /\ ~last.loadedPre /\ ~isMageCommand(last.argsPre)) =>
               /\ last.stage \in PassStages
               /\ RanPasses =>
                      /\ \A i \in 1..Len(LastType) : LastConfig[i] = ByPrecedence(i)
                      /\ (last.err = Nil) <=> (\A i \in 1..Len(LastType) : ~Violates(i))
        /\ last.completedPre =>
               /\ last.stage = "loaded"
               /\ last.err = Nil
               /\ LastConfig = last.pre

\* a Load call after a completed one, on a record whose sources have values
\* the record does not hold
C5_SecondLoadSkipped ==
    /\ last.op = "Load" /\ last.target.ptr /\ last.completedPre
    /\ last.stage = "loaded"
    /\ \E i \in 1..Len(LastType) : LastConfig[i] # ByPrecedence(i)

(***************************************************************************)
(* C6.  Set-tracking invariant: when validation runs, a field's flag is    *)
(* true if and only if the defaults pass, the file pass, the environment   *)
(* pass or the argument pass had a value for the field (every conversion   *)
(* has succeeded, or validation would not run); a field with no default    *)
(* and no value from any source has its zero value and a false flag.       *)
(***************************************************************************)
C6_SetIffSupplied ==
    RanPasses =>
        \A i \in 1..Len(LastType) :
            /\ last.isSet[LastType[i].Name] <=> Supplied(LastType[i])
            /\ ~Supplied(LastType[i]) =>
                   /\ LastConfig[i] = Zero(LastType[i].Type)
                   /\ ~last.isSet[LastType[i].Name]

\* validation ran with a field only the defaults pass had a value for and
\* a field no pass had a value for
C6_DefaultOnlyAndNone ==
    /\ RanPasses
    /\ \E i \in 1..Len(LastType) :
          /\ LastDefault(LastType[i]).found
          /\ ~LastFile(LastType[i]).found
          /\ ~LastEnv(LastType[i]).found
          /\ ~LastArg(LastType[i]).found
          /\ last.isSet[LastType[i].Name]
    /\ \E k \in 1..Len(LastType) :
          ~Supplied(LastType[k]) /\ ~last.isSet[LastType[k].Name]

(***************************************************************************)
(* C7.  A Load call that reaches the file pass with an empty path or the   *)
(* path of a file that does not exist does not end in the file pass, and   *)
(* when it runs to the end every file-keyed field holds the argument       *)
(* value, else the environment value, else its default, else what it held  *)
(* before, with its flag telling whether one of those existed; with a      *)
(* file that cannot be opened for another reason, or cannot be read to the *)
(* end, Load returns that error.                                           *)
(***************************************************************************)
C7_MissingFileNoError ==
    (last.op = "Load" /\ last.stage \in PassStages \ {"default"}) =>
        /\ (last.path = <<>> \/ files[last.path].kind = "missing") =>
               /\ last.stage # "file"
               /\ RanPasses =>
                      \A i \in 1..Len(LastType) :
                          LET f == LastType[i]
                          IN  f.file # <<>> =>
                                /\ LastConfig[i] =
                                      IF LastArg(f).found THEN Converted(i, LastArg(f).text)
                                      ELSE IF LastEnv(f).found THEN Converted(i, LastEnv(f).text)
                                      ELSE IF LastDefault(f).found
                                      THEN Converted(i, LastDefault(f).text)
                                      ELSE last.pre[i]
                                /\ last.isSet[f.Name] <=>
                                      (LastArg(f).found \/ LastEnv(f).found
                                          \/ LastDefault(f).found)
        /\ (last.path # <<>> /\ files[last.path].kind \in {"denied", "readerr"}) =>
               /\ last.stage = "file"
               /\ last.err = ErrFile(last.path)
               /\ proc = "running"

\* a Load call given the path of a file that does not exist ran to the end
\* and a file-keyed field with a default and no other value holds the default
C7_MissingFileDefaultKept ==
    /\ RanPasses
    /\ last.path # <<>> /\ files[last.path].kind = "missing"
    /\ \E i \in 1..Len(LastType) :
          /\ LastType[i].file # <<>>
          /\ LastDefault(LastType[i]).found
          /\ ~LastEnv(LastType[i]).found /\ ~LastArg(LastType[i]).found
          /\ LastConfig[i] = Converted(i, LastDefault(LastType[i]).text)

(***************************************************************************)
(* The argument pass of the latest call, token by token.                   *)
(***************************************************************************)
\* the latest call was a Load that reached its argument pass
ReachedArgs == last.op = "Load" /\ last.stage \in {"args", "validate"}

\* token k of args is the last one or is followed by a token that begins
\* with a dash
NoValueAfter(args, k) == k = Len(args) \/ HasPrefix(args[k + 1], <<argPrefix>>)

\* token k of args is followed by a token that does not begin with a dash
ValueAfter(args, k) == k < Len(args) /\ ~HasPrefix(args[k + 1], <<argPrefix>>)

IsBool(f) == f.Type.kind = "bool"

\* what field i is to hold once text is its value: Load fails when text
\* does not convert, and else the field holds the converted value and is
\* marked set when the passes have run to the end
TakesText(i, text) ==
    LET r == setFieldByKind(LastType[i], last.pre[i], text)
    IN  IF r.err # Nil THEN last.err # Nil
        ELSE RanPasses => (LastConfig[i] = r.v /\ last.isSet[LastType[i].Name])

(***************************************************************************)
(* C8.  As stated: a token -<name> or --<name> that is the last argument   *)
(* or is followed by a dash token sets a boolean field to true; for a      *)
(* non-boolean field such a token, when the scan comes to it, supplies     *)
(* nothing and the field's argument value is what the scan of the later    *)
(* tokens finds.                                                           *)
(***************************************************************************)
C8_AsStated ==
    RanPasses =>
        \A i \in 1..Len(LastType), k \in 2..Len(last.argsPre) :
            LET f == LastType[i]
                name == getTagOrDefault(f)
            IN  (StandaloneToken(last.argsPre[k], name) /\ NoValueAfter(last.argsPre, k)) =>
                    IF IsBool(f)
                    THEN LastConfig[i] = BoolV(TRUE) /\ last.isSet[f.Name]
                    ELSE FirstNaming(last.argsPre, k, name) =>
                           LastArg(f).text = ArgScan(last.argsPre, k + 1, name, FALSE)

\* C8, amended: a token -<name> or --<name> that is the first token naming
\* the field and is the last argument or is followed by a dash token sets a
\* boolean field to true; for a non-boolean field it supplies nothing and
\* the field's argument value is what the scan of the later tokens finds.
C8_FirstBareFlag ==
    RanPasses =>
        \A i \in 1..Len(LastType), k \in 2..Len(last.argsPre) :
            LET f == LastType[i]
                name == getTagOrDefault(f)
            IN  (/\ StandaloneToken(last.argsPre[k], name)
                 /\ FirstNaming(last.argsPre, k, name)
                 /\ NoValueAfter(last.argsPre, k)) =>
                    IF IsBool(f)
                    THEN LastConfig[i] = BoolV(TRUE) /\ last.isSet[f.Name]
                    ELSE LastArg(f).text = ArgScan(last.argsPre, k + 1, name, FALSE)

\* the arguments held a flag without a value for a boolean field, which is
\* true, and one for a non-boolean field that a later token gave a value
C8_BareFlagsSeen ==
    /\ RanPasses
    /\ \E i \in 1..Len(LastType), k \in 2..Len(last.argsPre) :
          /\ IsBool(LastType[i])
          /\ StandaloneToken(last.argsPre[k], getTagOrDefault(LastType[i]))
          /\ FirstNaming(last.argsPre, k, getTagOrDefault(LastType[i]))
          /\ NoValueAfter(last.argsPre, k)
          /\ LastConfig[i] = BoolV(TRUE)
          /\ last.pre[i] = BoolV(FALSE)
    /\ \E i \in 1..Len(LastType), k \in 2..Len(last.argsPre) :
          /\ ~IsBool(LastType[i])
          /\ StandaloneToken(last.argsPre[k], getTagOrDefault(LastType[i]))
          /\ FirstNaming(last.argsPre, k, getTagOrDefault(LastType[i]))
          /\ NoValueAfter(last.argsPre, k)
          /\ LastArg(LastType[i]).found

(***************************************************************************)
(* C9.  A token -<name> or --<name>, the first to name the field, whose    *)
(* next token exists and does not begin with a dash takes the next token   *)
(* as the field's value text, whatever the field's type: Load fails when   *)
(* the text does not convert, and else the field holds its conversion.     *)
(***************************************************************************)
C9_NextTokenIsValue ==
    ReachedArgs =>
        \A i \in 1..Len(LastType), k \in 2..Len(last.argsPre) :
            LET name == getTagOrDefault(LastType[i])
            IN  (/\ StandaloneToken(last.argsPre[k], name)
                 /\ FirstNaming(last.argsPre, k, name)
                 /\ ValueAfter(last.argsPre, k)) =>
                    TakesText(i, last.argsPre[k + 1])

(***************************************************************************)
(* C10.  A token -<name>=<value> or --<name>=<value>, the first to name    *)
(* the field, gives the field the text after the first "=" as its value,   *)
(* the empty text included: Load fails when the text does not convert, and *)
(* else the field holds its conversion and is marked set.                  *)
(***************************************************************************)
C10_KeyValueIsValue ==
    ReachedArgs =>
        \A i \in 1..Len(LastType), k \in 2..Len(last.argsPre) :
            LET name == getTagOrDefault(LastType[i])
            IN  (KeyValueToken(last.argsPre[k], name) /\ FirstNaming(last.argsPre, k, name)) =>
                    TakesText(i, ValueText(last.argsPre[k]))

(***************************************************************************)
(* What one token yields for an argument name, as the scan reads it: the   *)
(* text after the first "=" of a key=value token carrying the name, the    *)
(* next token of a token that is the name when that next token does not    *)
(* begin with a dash, and "true" for a boolean name otherwise.             *)
(***************************************************************************)
TokenYield(args, k, name, isBool) ==
    LET arg == TrimLeft(args[k], argPrefix)
        equalIndex == Index(arg, "=")
    IN  IF equalIndex > 0
        THEN IF SubSeq(arg, 1, equalIndex) = name
             THEN [found |-> TRUE, text |-> SubSeq(arg, equalIndex + 2, Len(arg))]
             ELSE [found |-> FALSE, text |-> <<>>]
        ELSE IF arg # name THEN [found |-> FALSE, text |-> <<>>]
        ELSE IF ValueAfter(args, k) THEN [found |-> TRUE, text |-> args[k + 1]]
        ELSE IF isBool THEN [found |-> TRUE, text |-> <<"t","r","u","e">>]
        ELSE [found |-> FALSE, text |-> <<>>]

\* the positions, from 1 on, of the tokens that yield a value for field f
YieldingTokens(f) ==
    {k \in 2..Len(last.argsPre) :
        TokenYield(last.argsPre, k, getTagOrDefault(f), IsBool(f)).found}

\* the least element of a non-empty set of positions
Leftmost(K) == CHOOSE k \in K : \A m \in K : k <= m

\* field i as the passes before the argument pass left it
BeforeArgs(i) ==
    LET f == LastType[i]
    IN  IF LastEnv(f).found THEN Converted(i, LastEnv(f).text)
        ELSE IF LastFile(f).found THEN Converted(i, LastFile(f).text)
        ELSE IF LastDefault(f).found THEN Converted(i, LastDefault(f).text)
        ELSE last.pre[i]

SetBeforeArgs(f) == LastDefault(f).found \/ LastFile(f).found \/ LastEnv(f).found

(***************************************************************************)
(* C11.  The scan goes left to right from position 1 and the leftmost      *)
(* token that yields a value for a field decides it: Load fails when that  *)
(* value does not convert, and else the field holds its conversion and is  *)
(* marked set; when no token yields a value the field and its set-tracking *)
(* flag are as the earlier passes left them.                               *)
(***************************************************************************)
C11_LeftmostValueDecides ==
    ReachedArgs =>
        \A i \in 1..Len(LastType) :
            LET f == LastType[i]
                Y == YieldingTokens(f)
            IN  IF Y # {}
                THEN TakesText(i, TokenYield(last.argsPre, Leftmost(Y),
                                             getTagOrDefault(f), IsBool(f)).text)
                ELSE RanPasses =>
                       /\ LastConfig[i] = BeforeArgs(i)
                       /\ last.isSet[f.Name] = SetBeforeArgs(f)

(***************************************************************************)
(* The environment pass of the latest call, read off the environment       *)
(* itself.                                                                 *)
(***************************************************************************)
\* the latest call was a Load that reached its environment pass
ReachedEnv == last.op = "Load" /\ last.stage \in {"env", "args", "validate"}

\* field f declares an environment variable and that variable is present
EnvPresent(f) == f.env # <<>> /\ f.env \in DOMAIN environ

\* field i as the passes before the environment pass left it
BeforeEnv(i) ==
    LET f == LastType[i]
    IN  IF LastFile(f).found THEN Converted(i, LastFile(f).text)
        ELSE IF LastDefault(f).found THEN Converted(i, LastDefault(f).text)
        ELSE last.pre[i]

IsText(f) == f.Type = Scalar("string")

(***************************************************************************)
(* C12.  For every field declaring an environment variable name: when the  *)
(* variable is present, the empty string included, Load fails if its value *)
(* does not convert, and else the environment pass assigns the field and   *)
(* marks it set, a text field holding exactly the variable's text over its *)
(* default and file value and a required field not being reported; when    *)
(* the variable is absent the pass leaves the field and its flag as the    *)
(* defaults and file passes left them.  The field is observed where the    *)
(* argument pass had no value for it.                                      *)
(***************************************************************************)
C12_EnvPresenceAssigns ==
    ReachedEnv =>
        \A i \in 1..Len(LastType) :
            LET f == LastType[i]
            IN  (f.env # <<>> /\ ~LastArg(f).found) =>
                  IF f.env \in DOMAIN environ
                  THEN /\ setFieldByKind(f, last.pre[i], environ[f.env]).err # Nil
                            => last.err # Nil
                       /\ RanPasses =>
                            /\ LastConfig[i] = Converted(i, environ[f.env])
                            /\ IsText(f) => LastConfig[i] = StringV(environ[f.env])
                            /\ last.isSet[f.Name]
                            /\ last.err # ErrRequiredNotSet(f.Name)
                  ELSE RanPasses =>
                            /\ LastConfig[i] = BeforeEnv(i)
                            /\ last.isSet[f.Name] =
                                   (LastDefault(f).found \/ LastFile(f).found)

\* a Load ran its passes with variables present with the empty string: a
\* text field with a default and a file value became the empty text, and a
\* required text field with no other value was satisfied by it
C12_EmptyVariableAssigned ==
    /\ RanPasses
    /\ \E i \in 1..Len(LastType) :
          /\ IsText(LastType[i]) /\ EnvPresent(LastType[i])
          /\ environ[LastType[i].env] = <<>>
          /\ LastDefault(LastType[i]).found /\ LastFile(LastType[i]).found
          /\ LastFile(LastType[i]).text # <<>>
          /\ LastConfig[i] = StringV(<<>>)
          /\ last.isSet[LastType[i].Name]
    /\ \E i \in 1..Len(LastType) :
          /\ IsText(LastType[i]) /\ EnvPresent(LastType[i])
          /\ environ[LastType[i].env] = <<>>
          /\ LastType[i].required = <<"t","r","u","e">>
          /\ ~LastDefault(LastType[i]).found /\ ~LastFile(LastType[i]).found
          /\ ~LastArg(LastType[i]).found
          /\ LastConfig[i] = StringV(<<>>)
          /\ last.err # ErrRequiredNotSet(LastType[i].Name)

(***************************************************************************)
(* Fields that carry no file, env or arg tag.                              *)
(***************************************************************************)
Untagged(f) == f.file = <<>> /\ f.env = <<>> /\ f.arg = <<>>

\* the name the naming convention gives field f in every source
ConventionName(f) == ToLower(f.Name)

(***************************************************************************)
(* C13.  Default naming convention: after a Load that ran its passes, a    *)
(* field without file, env and arg tag holds the value given under its     *)
(* lower-cased name: the argument's when the scan finds one, else the      *)
(* environment variable's when one of that name is present, else the       *)
(* file's when the file has that key.                                      *)
(***************************************************************************)
C13_DefaultNames ==
    RanPasses =>
        \A i \in 1..Len(LastType) :
            LET f == LastType[i]
                n == ConventionName(f)
                a == getArgValue(last.argsPre, n, IsBool(f))
            IN  Untagged(f) =>
                  IF a # <<>> THEN LastConfig[i] = Converted(i, a)
                  ELSE IF n \in DOMAIN environ
                  THEN LastConfig[i] = Converted(i, environ[n])
                  ELSE (n \in DOMAIN LastFileContent)
                           => LastConfig[i] = Converted(i, LastFileContent[n])

(***************************************************************************)
(* Conversion of the argument text of a mapping or sequence field, read    *)
(* off the text piece by piece.                                            *)
(***************************************************************************)
\* the argument pass of the latest call failed at a field before field i
ArgFailsBefore(i) ==
    \E j \in 1..(i - 1) :
        /\ LastArg(LastType[j]).found
        /\ LET r == setFieldByKind(LastType[j], last.pre[j], LastArg(LastType[j]).text)
           IN  r.err # Nil \/ r.panic

\* the comma-separated pieces of a text
Pieces(text) == Split(text, ",")

\* a pair-token without a colon; one that is not two colon-separated parts
NoColon(tok) == Index(tok, ":") < 0
NotTwoParts(tok) == Len(Split(tok, ":")) # 2

\* the key and the value text of a pair-token cut at its first colon
PairKey(tok) == TrimSpace(SubSeq(tok, 1, Index(tok, ":")))
PairValueText(tok) == TrimSpace(SubSeq(tok, Index(tok, ":") + 2, Len(tok)))

\* the pair-token has a colon and its value text converts to type t
PairConverts(tok, t) ==
    ~NoColon(tok) /\ parseStringToType(PairValueText(tok), t).err = Nil

\* the map the pair-tokens spell: each key with the value of its last pair
PairsMap(toks, t) ==
    [key \in {PairKey(toks[k]) : k \in 1..Len(toks)} |->
        LET K == {k \in 1..Len(toks) : PairKey(toks[k]) = key}
            k == CHOOSE x \in K : \A y \in K : y <= x
        IN  parseStringToType(PairValueText(toks[k]), t).v]

(***************************************************************************)
(* C14.  As stated: for a mapping field, a pair-token that is not exactly  *)
(* two colon-separated parts (no colon, or two or more colons), the pairs  *)
(* before it being well formed, makes Load fail with the map-format error  *)
(* naming that token, and the field is not assigned.                       *)
(***************************************************************************)
C14_AsStated ==
    ReachedArgs =>
        \A i \in 1..Len(LastType) :
            LET f == LastType[i]
                toks == Pieces(LastArg(f).text)
            IN  (f.Type.kind = "map" /\ LastArg(f).found /\ ~ArgFailsBefore(i)) =>
                  \A k \in 1..Len(toks) :
                      (/\ NotTwoParts(toks[k])
                       /\ \A m \in 1..(k - 1) :
                              ~NotTwoParts(toks[m]) /\ PairConverts(toks[m], f.Type.elem))
                      => /\ last.err = ErrMapFormat(toks[k])
                         /\ LastConfig[i] = BeforeArgs(i)

\* C14, amended: for a mapping field, a pair-token without a colon, the
\* pairs before it converting, makes Load fail with the map-format error
\* naming that token, and the field is not assigned; a pair-token with a
\* colon is cut at its first colon, so that when every pair converts the
\* field holds the map the pairs spell and is marked set.
C14_NoColonFails ==
    ReachedArgs =>
        \A i \in 1..Len(LastType) :
            LET f == LastType[i]
                toks == Pieces(LastArg(f).text)
            IN  (f.Type.kind = "map" /\ LastArg(f).found /\ ~ArgFailsBefore(i)) =>
                  /\ \A k \in 1..Len(toks) :
                        (/\ NoColon(toks[k])
                         /\ \A m \in 1..(k - 1) : PairConverts(toks[m], f.Type.elem))
                        => /\ last.err = ErrMapFormat(toks[k])
                           /\ LastConfig[i] = BeforeArgs(i)
                  /\ (RanPasses /\ \A k \in 1..Len(toks) : PairConverts(toks[k], f.Type.elem))
                        => /\ LastConfig[i] = MapV(PairsMap(toks, f.Type.elem))
                           /\ last.isSet[f.Name]

\* Load was given "key1,key2:2" for a mapping field: it failed with the
\* map-format error naming "key1" and the field kept its default's map
C14_MalformedPairReported ==
    /\ ReachedArgs
    /\ last.err = ErrMapFormat(<<"k","e","y","1">>)
    /\ \E i \in 1..Len(LastType) :
          /\ LastType[i].Type.kind = "map"
          /\ LastArg(LastType[i]).text =
                 <<"k","e","y","1",",","k","e","y","2",":","2">>
          /\ LastConfig[i] = BeforeArgs(i)
          /\ LastConfig[i] # Zero(LastType[i].Type)

\* the positions of the commas of a text, and the text between the
\* (k-1)-th and the k-th of them
Commas(text) == {j \in 1..Len(text) : text[j] = ","}

CommaAt(text, k) ==
    IF k = 0 THEN 0
    ELSE IF k > Cardinality(Commas(text)) THEN Len(text) + 1
    ELSE CHOOSE j \in Commas(text) :
             Cardinality({m \in Commas(text) : m <= j}) = k

PieceAt(text, k) == SubSeq(text, CommaAt(text, k - 1) + 1, CommaAt(text, k) - 1)

\* piece k of the text, trimmed, converted to the element type t
ElementOf(text, k, t) == parseStringToType(TrimSpace(PieceAt(text, k)), t)

(***************************************************************************)
(* C15.  For a sequence field given a text: when every comma-separated     *)
(* piece, trimmed, converts to the element type, the field holds one       *)
(* element per piece (the number of commas plus one) in the order of the   *)
(* text, each the conversion of its trimmed piece; when some piece does    *)
(* not convert Load fails and the field keeps its previous value.          *)
(***************************************************************************)
C15_OneElementPerPiece ==
    ReachedArgs =>
        \A i \in 1..Len(LastType) :
            LET f == LastType[i]
                text == LastArg(f).text
                n == Cardinality(Commas(text)) + 1
            IN  (f.Type.kind = "slice" /\ LastArg(f).found /\ ~ArgFailsBefore(i)) =>
                  IF \A k \in 1..n : ElementOf(text, k, f.Type.elem).err = Nil
                  THEN RanPasses =>
                         /\ LastConfig[i].t = "slice"
                         /\ Len(LastConfig[i].items) = n
                         /\ \A k \in 1..n :
                                LastConfig[i].items[k] = ElementOf(text, k, f.Type.elem).v
                         /\ last.isSet[f.Name]
                  ELSE /\ last.err # Nil
                       /\ last.stage = "args"
                       /\ LastConfig[i] = BeforeArgs(i)

\* Load was given "one,two,three" for a sequence of texts, which then held
\* the three texts in that order
C15_ThreeElements ==
    /\ RanPasses
    /\ \E i \in 1..Len(LastType) :
          /\ LastType[i].Type = SliceOf("string")
          /\ LastArg(LastType[i]).text =
                 <<"o","n","e",",","t","w","o",",","t","h","r","e","e">>
          /\ last.pre[i] = SliceV(<<>>)
          /\ LastConfig[i] = SliceV(<< StringV(<<"o","n","e">>),
                                       StringV(<<"t","w","o">>),
                                       StringV(<<"t","h","r","e","e">>) >>)

(***************************************************************************)
(* The configuration file of the latest call, read off its lines.          *)
(***************************************************************************)
\* the latest call was a Load that opened its file and came to read it
ReadFile ==
    /\ last.op = "Load"
    /\ last.stage \in {"file", "env", "args", "validate"}
    /\ last.path # <<>>
    /\ files[last.path].kind = "file"

LastLines == files[last.path].lines

HasColon(line) == Index(line, ":") >= 0

\* the key and the value of a line cut at its first colon, each trimmed
LineKey(line) == TrimSpace(SubSeq(line, 1, Index(line, ":")))
LineValue(line) == TrimSpace(SubSeq(line, Index(line, ":") + 2, Len(line)))

\* the lines that give a value to key, and the value of the last of them
KeyLines(key) ==
    {k \in 1..Len(LastLines) : HasColon(LastLines[k]) /\ LineKey(LastLines[k]) = key}

LastLineValue(key) ==
    LineValue(LastLines[CHOOSE k \in KeyLines(key) : \A m \in KeyLines(key) : m <= k])

\* a value without its one layer of matching quotes, when it has one
Unquoted(v) ==
    IF Len(v) >= 2 /\ v[1] \in {"\"", "'"} /\ v[Len(v)] = v[1]
    THEN SubSeq(v, 2, Len(v) - 1)
    ELSE v

\* field i names a file key and neither the environment nor the arguments
\* had a value for it
FileDecides(i) ==
    /\ LastType[i].file # <<>>
    /\ ~LastEnv(LastType[i]).found
    /\ ~LastArg(LastType[i]).found

(***************************************************************************)
(* C16.  The file pass reads every line: a line without a colon is         *)
(* skipped, every other line gives its key (the text before the first      *)
(* colon, trimmed) the text after that colon, trimmed and without its      *)
(* layer of quotes, the last line of a key deciding.  So after a Load that *)
(* read its file, a field whose key the file has holds that value and is   *)
(* marked set, and a field whose key it has not is as the defaults pass    *)
(* left it, whatever other keys the file holds.                            *)
(***************************************************************************)
C16_LineByLine ==
    ReadFile =>
        /\ proc # "panicked"
        /\ RanPasses =>
             \A i \in 1..Len(LastType) :
                 LET f == LastType[i]
                 IN  FileDecides(i) =>
                       IF KeyLines(f.file) # {}
                       THEN /\ LastConfig[i] = Converted(i, Unquoted(LastLineValue(f.file)))
                            /\ last.isSet[f.Name]
                       ELSE /\ LastConfig[i] =
                                   IF LastDefault(f).found
                                   THEN Converted(i, LastDefault(f).text)
                                   ELSE last.pre[i]
                            /\ last.isSet[f.Name] = LastDefault(f).found

(***************************************************************************)
(* C20.  Quote stripping is total: whatever the trimmed value of a line,   *)
(* reading goes on to the next line, and the value stored for the key is   *)
(* the value without its first and last character when it has at least     *)
(* two characters and these are the same quote character, and the value    *)
(* unchanged otherwise, a value that is one quote character included.  The *)
(* stored value is observed in the text field keyed by the line's key.     *)
(***************************************************************************)
C20_QuoteStrippingTotal ==
    ReadFile =>
        \A k \in 1..Len(LastLines) :
            HasColon(LastLines[k]) =>
                /\ proc # "panicked"
                /\ \A i \in 1..Len(LastType) :
                       (/\ RanPasses
                        /\ FileDecides(i) /\ IsText(LastType[i])
                        /\ LastType[i].file = LineKey(LastLines[k])
                        /\ \A m \in KeyLines(LineKey(LastLines[k])) : m <= k)
                       => LastConfig[i] = StringV(Unquoted(LineValue(LastLines[k])))

(***************************************************************************)
(* Two Load calls at once.                                                 *)
(***************************************************************************)
\* what the call of goroutine g comes to when it runs alone in the process
Alone(g) ==
    Load(running[g].target, running[g].path, osArgs, environ, files,
         [id \in ConfigIds |-> ZeroConfig(TypeOf(id))], FALSE, FALSE)

\* the call of goroutine g has ended
Ended(g) == running # NoneRunning /\ running[g].pc = "done"

RecordOf(g) == configs[running[g].target.id]

DashToken(tok) == Len(tok) >= 1 /\ tok[1] = "-"

PassThrough(tok) == tok \in {<<"-","h">>, <<"-","t">>, <<"-","v">>}

\* the positions of the dash tokens of args that are no pass-through option
CutPoints(args) == {k \in 1..Len(args) : DashToken(args[k]) /\ ~PassThrough(args[k])}

(***************************************************************************)
(* C18.  DropArgsAfterTarget called after a Load that completed its passes *)
(* leaves the tokens before the first dash token that is no pass-through   *)
(* option (-h, -t, -v), each unchanged: a prefix of the list before the    *)
(* call without any dash token other than pass-through options, the whole  *)
(* list when it has no such token, and a list that one more call leaves as *)
(* it is.  Called before any Load has completed its passes it leaves the   *)
(* list unchanged.                                                         *)
(***************************************************************************)
C18_CutBeforeFirstFlag ==
    last.op = "DropArgsAfterTarget" =>
        LET pre == last.argsPre
            K == CutPoints(pre)
        IN  IF last.completedPre
            THEN /\ Len(osArgs) <= Len(pre)
                 /\ \A k \in 1..Len(osArgs) : osArgs[k] = pre[k]
                 /\ CutPoints(osArgs) = {}
                 /\ K = {} => osArgs = pre
                 /\ K # {} => \A k \in K : Len(osArgs) + 1 <= k
                 /\ K # {} => Len(osArgs) + 1 \in K
                 /\ DropArgsAfterTarget(osArgs, isLoaded) = osArgs
            ELSE osArgs = pre

\* DropArgsAfterTarget, called after a Load that completed its passes, cut
\* the list before a flag and kept a pass-through option that came before
\* the flag
C18_CutKeepsPassThrough ==
    /\ last.op = "DropArgsAfterTarget"
    /\ last.completedPre
    /\ Len(osArgs) < Len(last.argsPre)
    /\ \E k \in 2..Len(osArgs) : PassThrough(osArgs[k])

(***************************************************************************)
(* The help flag among the arguments of the latest call.                   *)
(***************************************************************************)
HelpAmong(args) ==
    \E k \in 1..Len(args) :
        args[k] \in {<<"-","h","e","l","p">>, <<"-","-","h","e","l","p">>}

(***************************************************************************)
(* C19.  Load takes the help branch exactly when some process argument is  *)
(* -help or --help, and whenever it does the process ends with success     *)
(* status before any pass runs: the record is as before the call and no    *)
(* error is reported.                                                      *)
(***************************************************************************)
C19_HelpEndsProcess ==
    last.op = "Load" =>
        /\ (last.stage = "help") <=> HelpAmong(last.argsPre)
        /\ HelpAmong(last.argsPre) =>
              /\ proc = "exited"
              /\ LastConfig = last.pre
              /\ last.err = Nil

(***************************************************************************)
(* C21.  After a Load that ran its passes, the error returned is that of   *)
(* the earliest field in declared order that has a violation and of that   *)
(* field alone: its required-not-set error when it is required and unset,  *)
(* and else the dependency-not-set error naming the first unset name in    *)
(* the order its depends tag lists them; with no violation Load returns    *)
(* success.                                                                *)
(***************************************************************************)
C21_EarliestViolationOnly ==
    RanPasses =>
        LET V == {i \in 1..Len(LastType) : EntryViolates(i)}
        IN  IF V = {} THEN last.err = Nil
            ELSE LET i == CHOOSE k \in V : \A m \in V : k <= m
                 IN  last.err =
                         IF RequiredEntryUnset(i)
                         THEN ErrRequiredNotSet(LastType[i].Name)
                         ELSE ErrDependsNotSet(FirstUnsetDepend(i))

\* validation ran with a field both required and unset and with unset
\* dependencies, and with a later field in violation too: Load reported
\* the required-not-set error of the first
C21_SeveralViolationsOneReported ==
    /\ RanPasses
    /\ \E i \in 1..Len(LastType), j \in 1..Len(LastType) :
          /\ i < j
          /\ RequiredEntryUnset(i) /\ DependsEntryUnset(i)
          /\ EntryViolates(j)
          /\ \A m \in 1..(i - 1) : ~EntryViolates(m)
          /\ last.err = ErrRequiredNotSet(LastType[i].Name)

(***************************************************************************)
(* The passes as C22 reads them: pass 1 the defaults, 2 the file, 3 the    *)
(* environment, 4 the arguments.                                           *)
(***************************************************************************)
PassOf(stage) ==
    CASE stage = "default" -> 1 [] stage = "file" -> 2
      [] stage = "env" -> 3 [] stage = "args" -> 4

\* the file of the latest call could not be opened or read
FileError ==
    last.path # <<>> /\ files[last.path].kind \in {"denied", "readerr"}

\* what pass q held for field i at the latest call
PassText(q, i) ==
    CASE q = 1 -> LastDefault(LastType[i])
      [] q = 2 -> LastFile(LastType[i])
      [] q = 3 -> LastEnv(LastType[i])
      [] q = 4 -> LastArg(LastType[i])

\* pass q held a text for field i that does not convert
ConversionFails(q, i) ==
    /\ PassText(q, i).found
    /\ setFieldByKind(LastType[i], last.pre[i], PassText(q, i).text).err # Nil

\* pass q fails at field k: k is its first field whose text does not convert
FailsAt(q, k) ==
    ConversionFails(q, k) /\ \A m \in 1..(k - 1) : ~ConversionFails(q, m)

\* the value of field i after the passes 1..q: that of the last of them
\* holding a text for the field, else the value before the call
RECURSIVE AfterPasses(_, _)
AfterPasses(q, i) ==
    IF q = 0 THEN last.pre[i]
    ELSE IF PassText(q, i).found THEN Converted(i, PassText(q, i).text)
    ELSE AfterPasses(q - 1, i)

\* some pass among 1..q held a text for field i
AppliedBy(q, i) == \E m \in 1..q : PassText(m, i).found

\* the latest call was a Load that a pass ended with an error
PassFailed ==
    /\ Returned /\ last.err # Nil
    /\ last.stage \in {"default", "file", "env", "args"}

(***************************************************************************)
(* C22.  A Load that a pass ended with an error: the passes before it, in  *)
(* the order defaults, file, environment, arguments, had no file error and *)
(* no text that does not convert; the failing pass is the file pass with a *)
(* file that could not be opened or read, which assigned no field, or it   *)
(* has a first field whose text does not convert, and Load returned that   *)
(* conversion's error.  The fields before that one hold what the passes up *)
(* to the failing one gave them, that field and the later ones what the    *)
(* passes before it gave them, the flags of the set-tracking map likewise, *)
(* and the loaded latch is as before the call: validation did not run.     *)
(***************************************************************************)
C22_FirstErrorEndsCall ==
    PassFailed =>
        LET p == PassOf(last.stage)
            n == Len(LastType)
            K == IF p = 2 /\ FileError THEN {1}
                 ELSE {k \in 1..n : FailsAt(p, k)}
        IN  /\ \A q \in 1..(p - 1), i \in 1..n : ~ConversionFails(q, i)
            /\ p > 2 => ~FileError
            /\ K # {}
            /\ \A k \in K :
                 /\ last.err = IF p = 2 /\ FileError THEN ErrFile(last.path)
                               ELSE setFieldByKind(LastType[k], last.pre[k],
                                                   PassText(p, k).text).err
                 /\ \A i \in 1..n :
                      /\ LastConfig[i] = AfterPasses(IF i < k THEN p ELSE p - 1, i)
                      /\ last.isSet[LastType[i].Name]
                            = AppliedBy(IF i < k THEN p ELSE p - 1, i)
            /\ isLoaded = last.loadedPre
            /\ last.err.kind \notin {ErrRequiredNotSet(<<>>).kind, ErrDependsNotSet(<<>>).kind}

\* a pass failed at a field between a field it had assigned and a field it
\* held a text for, after an earlier pass had assigned all three
C22_FailedBetweenFields ==
    /\ PassFailed
    /\ \E k \in 2..(Len(LastType) - 1) :
          /\ PassOf(last.stage) > 1
          /\ FailsAt(PassOf(last.stage), k)
          /\ PassText(PassOf(last.stage), k - 1).found
          /\ PassText(PassOf(last.stage), k + 1).found
          /\ LastConfig[k - 1] = Converted(k - 1, PassText(PassOf(last.stage), k - 1).text)
          /\ LastConfig[k + 1] = Converted(k + 1, PassText(1, k + 1).text)
          /\ LastConfig[k + 1] # Converted(k + 1, PassText(PassOf(last.stage), k + 1).text)

(***************************************************************************)
(* C23.  The loaded latch is true exactly when some Load call has run its  *)
(* four passes to the end: it is false before any call, a Load call whose  *)
(* passes all completed leaves it true whatever validation returned, a     *)
(* Load call that stopped earlier leaves it as it was, and no call of the  *)
(* library sets it back to false.                                          *)
(***************************************************************************)
C23_LatchFollowsCompletedPasses ==
    /\ isLoaded = completed
    /\ last.op = "none" => ~isLoaded
    /\ last.op # "none" => (last.loadedPre => isLoaded)
    /\ last.op = "Load" =>
          IF last.stage = "validate" THEN isLoaded
          ELSE isLoaded = last.loadedPre

\* a Load that found the latch false, ran its four passes and returned a
\* validation error: the latch is true
C23_LatchSetDespiteValidation ==
    /\ last.op = "Load" /\ last.stage = "validate"
    /\ ~last.loadedPre /\ ~last.completedPre
    /\ last.err # Nil
    /\ isLoaded

(***************************************************************************)
(* The mage commands among the arguments of the latest call, and a Load    *)
(* call that returned success and left everything as it was.               *)
(***************************************************************************)
MageCommandAmong(args) ==
    \E k \in 1..Len(args) : args[k] \in {<<"-","l">>, <<"-","h">>}

ReturnedUntouched ==
    /\ proc = "running"
    /\ last.err = Nil
    /\ last.stage \notin PassStages
    /\ LastConfig = last.pre
    /\ last.isSet = initializeIsSet(LastType)
    /\ osArgs = last.argsPre
    /\ isLoaded = last.loadedPre

(***************************************************************************)
(* C24 as stated: whenever some argument of a Load call, at any position,  *)
(* is -l or -h, the call returns success without running a pass, and the   *)
(* record, the argument list and the loaded latch are as before.  Violated *)
(* when -help or --help is among the arguments too: the help branch comes  *)
(* first and ends the process.                                             *)
(***************************************************************************)
C24_AsStated ==
    (last.op = "Load" /\ MageCommandAmong(last.argsPre)) => ReturnedUntouched

(***************************************************************************)
(* C24.  Whenever some argument of a Load call, at any position, is -l or  *)
(* -h and none is -help or --help, the call returns success without        *)
(* running a pass: the record, the argument list and the loaded latch are  *)
(* as before, and no field is marked set nor any required or dependency    *)
(* error reported.                                                         *)
(***************************************************************************)
C24_MageCommandSkipsLoad ==
    (/\ last.op = "Load"
     /\ MageCommandAmong(last.argsPre)
     /\ ~HelpAmong(last.argsPre)) => ReturnedUntouched

\* a first Load on a record with a required field and no value for it, a
\* mage command after another argument: success, the field at its zero value
C24_RequiredUnsetNoError ==
    /\ last.op = "Load" /\ last.target.ptr /\ ~last.loadedPre
    /\ Len(last.argsPre) = 3
    /\ last.argsPre[2] \notin {<<"-","l">>, <<"-","h">>}
    /\ last.argsPre[3] \in {<<"-","l">>, <<"-","h">>}
    /\ \E i \in 1..Len(LastType) : RequiredUnsupplied(i)
    /\ \E i \in 1..Len(LastType) : LastArg(LastType[i]).found
    /\ ReturnedUntouched

(***************************************************************************)
(* Numeric texts as C25 reads them: the kinds, the range of each width,    *)
(* and the value a text stands for at the field's own type.                *)
(***************************************************************************)
SignedKinds == {"int", "int32", "int64"}
UnsignedKinds == {"uint", "uint32", "uint64"}
FloatKinds == {"float32", "float64"}
NumericKinds == SignedKinds \cup UnsignedKinds \cup FloatKinds

AllDigits(ds) == ds # <<>> /\ \A i \in 1..Len(ds) : IsDigit(ds[i])

\* the text without its sign
Magnitude(text) ==
    IF text # <<>> /\ text[1] \in {"+", "-"} THEN Tail(text) ELSE text

Negative(text) == text # <<>> /\ text[1] = "-"

\* text is a numeral of the kind: digits with an optional sign for a signed
\* integer, digits for an unsigned one, a decimal for a float
NumericText(kind, text) ==
    CASE kind \in SignedKinds -> AllDigits(Magnitude(text))
      [] kind \in UnsignedKinds -> AllDigits(text)
      [] kind \in FloatKinds -> ParseFloat(text).err.kind # ErrSyntax(text).kind

\* 1<<31 - 1, 1<<31 and 1<<32 - 1 as digit texts
MaxInt32Digits == <<"2","1","4","7","4","8","3","6","4","7">>
MinInt32Digits == <<"2","1","4","7","4","8","3","6","4","8">>
MaxUint32Digits == <<"4","2","9","4","9","6","7","2","9","5">>

\* the largest float32, 3.4028234663852886e+38, as the first digits of the
\* least decimal that rounds beyond it (half an ulp above)
OverFloat32Digits ==
    <<"3","4","0","2","8","2","3","5","6","7","7","9","7","3","3","6","6","2">>

\* the numeral lies in the range of the kind's width (int and uint are 64
\* bits wide)
InRange(kind, text) ==
    LET ds == StripZeros(Magnitude(text))
        f == ParseFloat(text).v
    IN  CASE kind = "int32" ->
               DigitsLeq(ds, IF Negative(text) THEN MinInt32Digits ELSE MaxInt32Digits)
          [] kind \in {"int", "int64"} ->
               DigitsLeq(ds, IF Negative(text) THEN MinInt64Digits ELSE MaxInt64Digits)
          [] kind = "uint32" -> DigitsLeq(ds, MaxUint32Digits)
          [] kind \in {"uint", "uint64"} -> DigitsLeq(ds, MaxUint64Digits)
          [] kind = "float32" ->
               /\ ParseFloat(text).err = Nil
               /\ BelowDecimal(f.mant, f.exp, OverFloat32Digits, 38)
          [] kind = "float64" -> ParseFloat(text).err = Nil

\* the number the numeral stands for, as a value of the kind
ValueAtKind(kind, text) ==
    LET ds == StripZeros(Magnitude(text))
    IN  CASE kind \in SignedKinds ->
               [t |-> kind, neg |-> Negative(text) /\ ds # <<"0">>, digits |-> ds]
          [] kind \in UnsignedKinds -> [t |-> kind, digits |-> ds]
          [] kind \in FloatKinds -> [ParseFloat(text).v EXCEPT !.t = kind]

\* field i is the first field of the record the arguments of the latest
\* call hold a text for
FirstWithArg(i) ==
    /\ LastArg(LastType[i]).found
    /\ \A m \in 1..(i - 1) : ~LastArg(LastType[m]).found

\* the conversion of field i's argument text ended as C25 says, for the
\* kinds given
NumericOutcome(i, kinds) ==
    LET kind == LastType[i].Type.kind
        text == LastArg(LastType[i]).text
    IN  (kind \in kinds /\ FirstWithArg(i) /\ NumericText(kind, text)) =>
            IF InRange(kind, text)
            THEN /\ LastConfig[i] = ValueAtKind(kind, text)
                 /\ last.isSet[LastType[i].Name]
            ELSE /\ proc = "running"
                 /\ last.stage = "args"
                 /\ last.err.kind = ErrRange(text).kind
                 /\ LastConfig[i] = last.pre[i]

\* the latest call was a Load that reached its argument pass
ReachedArgPass == last.op = "Load" /\ last.stage \in {"args", "validate"}

(***************************************************************************)
(* C25.  In a Load that reached its argument pass, for the first field the *)
(* arguments hold a text for, of any of the kinds int, int32, int64, uint, *)
(* uint32, uint64, float32 and float64: a numeral in the range of the      *)
(* field's width is assigned as a value of the field's own type, without a *)
(* failure at that field, and a numeral beyond the range of the field's    *)
(* width makes Load return a range error with the field unassigned.        *)
(* Violated: a numeral for an int32 field ends the process with a panic,   *)
(* whether the numeral is in range or not.                                 *)
(***************************************************************************)
C25_NumericAtOwnWidth ==
    ReachedArgPass => \A i \in 1..Len(LastType) : NumericOutcome(i, NumericKinds)

(***************************************************************************)
(* The tokens that begin with a dash, as C26 reads them.                   *)
(***************************************************************************)
\* some token of the latest call's arguments begins with a dash and carries
\* field f's argument name
DashTokenNames(f) ==
    \E k \in 2..Len(last.argsPre) :
        /\ HasPrefix(last.argsPre[k], <<"-">>)
        /\ ScanName(last.argsPre[k]) = getTagOrDefault(f)

\* the value of field i by the sources other than the arguments
WithoutArgs(i) ==
    LET f == LastType[i]
    IN  IF LastEnv(f).found THEN Converted(i, LastEnv(f).text)
        ELSE IF LastFile(f).found THEN Converted(i, LastFile(f).text)
        ELSE IF LastDefault(f).found THEN Converted(i, LastDefault(f).text)
        ELSE last.pre[i]

(***************************************************************************)
(* C26.  After a Load that ran its passes, a field whose argument name no  *)
(* token beginning with a dash carries was not set by the argument pass:   *)
(* it holds what the environment, the file or the default gave it, and is  *)
(* marked set only if one of those had a value.  Violated: the token       *)
(* field5=z, without a dash, sets Field5 to z.                             *)
(***************************************************************************)
C26_DashlessNeverSelects ==
    RanPasses =>
        \A i \in 1..Len(LastType) :
            ~DashTokenNames(LastType[i]) =>
                /\ LastConfig[i] = WithoutArgs(i)
                /\ last.isSet[LastType[i].Name] =
                       (\/ LastEnv(LastType[i]).found
                        \/ LastFile(LastType[i]).found
                        \/ LastDefault(LastType[i]).found)

=============================================================================
